---- MODULE Spec2Model ----
(***************************************************************************)
(* DC-DC converter CAN controller (src/dcdc_controller.py).                *)
(*                                                                         *)
(* Physical values (Python floats and ints handed to or returned by the    *)
(* signal codec) are fixed-point integers counted in 1/FP units, so that   *)
(* int(x) and int(x * 10) truncate and scaling by 0.1 is exact.            *)
(* Message names are sequences of tokens, so that the f-string suffix of   *)
(* _get_message_name is a concatenation and `'X' in msg_name` is a         *)
(* contiguous-subsequence search.                                          *)
(* Frame identifiers are the 29-bit identifiers the catalog loader keeps   *)
(* (the DBC's bit 31, the extended-frame flag, cleared).                   *)
(***************************************************************************)
EXTENDS Integers, Sequences, FiniteSets, TLC

\* ------------------------------------------------------------------ bounds

\* bus.recv() calls the session makes in one run, over all its
\* receive_messages() calls
MaxPolls == 2
\* monitoring sessions (receiver threads) the monitor application starts in
\* one run
MaxSessions == 2
\* threads calling the read accessors while the receive loop runs
MaxReaders == 2
\* largest num_units the catalog is expanded for
MaxUnits == 3
\* largest timeout of a receive_messages call, in units of the 0.1 s that one
\* bus.recv call waits for a frame
MaxBudget == 2
\* max_buffer_size the data logger is constructed with
MaxBuffer == 2
\* log_data calls in one run
MaxLogged == 3
\* log files the data logger opens in one run
MaxFiles == 2
\* bus objects one CANBusHandler creates in one run
MaxConnects == 3

\* resolution of the fixed-point representation of Python floats
FP == 100

\* ------------------------------------------------------------ enumerations

ConverterMode == [NOT_SET |-> 0, BUS1_TO_BUS2 |-> 1, BUS2_TO_BUS1 |-> 2,
                  BIDIRECTIONAL |-> 3]

ControlType == [NOT_SET |-> 0, V_BUS2 |-> 1, V_BUS1 |-> 2, I_BUS2 |-> 3,
                I_BUS1 |-> 4, P_BUS2 |-> 5, P_BUS1 |-> 6, V_BUS2_ILIM |-> 7,
                V_BUS1_ILIM |-> 8]

RequestedInfo == [ERRORS |-> 1, WARNINGS |-> 2, CURRENT_MEASURES |-> 3,
                  POWER_MEASURES |-> 4, VOLTAGE_MEASURES |-> 5,
                  TEMPERATURE_MEASURES |-> 6, REGULATION_INFORMATION |-> 8,
                  CONTROL_INFORMATION |-> 9]

Range(f) == {f[x] : x \in DOMAIN f}

\* ------------------------------------------------------------------- codec
\* cantools' Message.encode / Message.decode as the controller calls them
\* (strict encoding: every signal of the message must be supplied, a value
\* outside the declared range or outside the bit field is an EncodeError;
\* a payload shorter than the message is a DecodeError).

None == "None"

Pow2(n) == 2 ^ n

\* Python's round(): to nearest, ties to even.  n / d with d > 0.
RoundHalfEven(n, d) ==
    LET q == n \div d
        r == n % d
    IN  IF 2 * r < d THEN q
        ELSE IF 2 * r > d THEN q + 1
        ELSE IF q % 2 = 0 THEN q ELSE q + 1

\* raw = round((physical - offset) / scale)
ScaledToRaw(sig, physical) == RoundHalfEven(physical - sig.offset, sig.scale)

\* physical = raw * scale + offset
RawToScaled(sig, raw) == raw * sig.scale + sig.offset

RawFits(sig, raw) ==
    IF sig.is_signed
    THEN -Pow2(sig.length - 1) <= raw /\ raw < Pow2(sig.length - 1)
    ELSE 0 <= raw /\ raw < Pow2(sig.length)

\* the declared [minimum, maximum] of a signal: <<>> when the catalog declares none
InDeclaredRange(sig, physical) ==
    \/ Len(sig.range) = 0
    \/ sig.range[1] <= physical /\ physical <= sig.range[2]

\* Position of a payload bit (byte * 8 + bit, bit 0 the LSB of its byte) in
\* the bit stream that reads every byte from its MSB down, and back (the map
\* is its own inverse): a big-endian signal is a run of that stream which
\* begins, MSB first, at its start bit.
Stream(p) == 8 * (p \div 8) + (7 - (p % 8))

\* payload position of the least significant bit of the signal
LsbPos(sig) ==
    IF sig.byte_order = "little_endian"
    THEN sig.start
    ELSE Stream(Stream(sig.start) + sig.length - 1)

\* The bytes of a signal, counted from the byte that holds its LSB: byte k of
\* the signal is payload byte LsbPos \div 8 + k (little-endian) or
\* LsbPos \div 8 - k (big-endian); -1 when payload byte b holds no bit of it.
\* Signals are at most 16 bits long, so a signal spans at most three bytes.
SignalByteIndex(sig, b) ==
    LET k == IF sig.byte_order = "little_endian"
             THEN b - (LsbPos(sig) \div 8)
             ELSE (LsbPos(sig) \div 8) - b
    IN  IF 0 <= k /\ 8 * k < (LsbPos(sig) % 8) + sig.length THEN k ELSE -1

SignalNames(message) == {message.signals[i].name : i \in DOMAIN message.signals}

SignalOf(message, name) ==
    message.signals[CHOOSE i \in DOMAIN message.signals : message.signals[i].name = name]

Encodable(message, data) ==
    /\ DOMAIN data = SignalNames(message)
    /\ \A i \in DOMAIN message.signals :
          LET s == message.signals[i]
          IN  /\ InDeclaredRange(s, data[s.name])
              /\ RawFits(s, ScaledToRaw(s, data[s.name]))

\* what the signal contributes to payload byte b: its raw value in two's
\* complement, shifted to its bit offset, cut to that byte
PackedByte(sig, physical, b) ==
    LET k == SignalByteIndex(sig, b)
    IN  IF k < 0 THEN 0
        ELSE (((ScaledToRaw(sig, physical) % Pow2(sig.length)) * Pow2(LsbPos(sig) % 8))
                 \div Pow2(8 * k)) % 256

RECURSIVE EncodedByte(_, _, _, _)
EncodedByte(message, data, b, i) ==
    IF i > Len(message.signals) THEN 0
    ELSE PackedByte(message.signals[i], data[message.signals[i].name], b)
         + EncodedByte(message, data, b, i + 1)

\* message.encode(data): the payload, message.length bytes
Encode(message, data) ==
    [b \in 1 .. message.length |-> EncodedByte(message, data, b - 1, 1)]

\* byte k of the signal as the payload holds it
PayloadByte(sig, payload, k) ==
    LET b == IF sig.byte_order = "little_endian"
             THEN (LsbPos(sig) \div 8) + k
             ELSE (LsbPos(sig) \div 8) - k
    IN  IF SignalByteIndex(sig, b) = k THEN payload[b + 1] ELSE 0

\* the bit field of the signal, as an unsigned number
UnpackRaw(sig, payload) ==
    ((PayloadByte(sig, payload, 0) + 256 * PayloadByte(sig, payload, 1)
        + 65536 * PayloadByte(sig, payload, 2)) \div Pow2(LsbPos(sig) % 8))
    % Pow2(sig.length)

\* mutant: the raw value is read without its sign
SignedRaw_unsigned(sig, u) == u

SignedRaw(sig, u) ==
    IF sig.is_signed /\ u >= Pow2(sig.length - 1) THEN u - Pow2(sig.length) ELSE u

Decodable(message, payload) == Len(payload) >= message.length

\* message.decode(payload): signal name -> physical value
Decode(message, payload) ==
    [n \in SignalNames(message) |->
        LET s == SignalOf(message, n)
        IN  RawToScaled(s, SignedRaw(s, UnpackRaw(s, payload)))]

\* ----------------------------------------------------------------- catalog
\* The message catalog the controller loads (self.db).  The repository's DBC
\* file is not part of the sources: message and signal names are the ones the
\* controller uses, the control-request layout is the specification's
\* Scenario A, the remaining layouts are representative.

Sig(name, start, length, byte_order, is_signed, scale, offset, range) ==
    [name |-> name, start |-> start, length |-> length, byte_order |-> byte_order,
     is_signed |-> is_signed, scale |-> scale, offset |-> offset, range |-> range]

Msg(frame_id, name, length, signals) ==
    [frame_id |-> frame_id, name |-> name, length |-> length, signals |-> signals]

LE == "little_endian"
BE == "big_endian"

\* copies of every converter message the expanded catalog holds
NumUnits == 3

\* first frame identifier of the converter messages and the spacing between
\* the base identifiers of two messages
BaseId == 1048576
IdStep == 256

ModeRequest == <<"DCDC_", "Mode", "Request">>
ControlRequest == <<"DCDC_", "Control", "Request">>
ErrorResetRequest == <<"DCDC_", "Error", "Reset", "Request">>
InformationRequest == <<"DCDC_", "Information", "Request">>
SettingsModeRequest == <<"DCDC_", "Settings", "Mode", "Request">>

BaseMessages ==
    { Msg(BaseId + 0 * IdStep, ModeRequest, 1,
          << Sig("converterModeReq", 0, 4, LE, FALSE, FP, 0, <<>>),
            Sig("controlTypeReq", 4, 4, LE, FALSE, FP, 0, <<>>) >>),
      Msg(BaseId + 1 * IdStep, ControlRequest, 8,
          << Sig("startCommand", 0, 1, LE, FALSE, FP, 0, <<>>),
            Sig("setpointReq", 8, 16, LE, TRUE, FP \div 10, 0, <<>>),
            Sig("currentLimitReq", 24, 16, LE, FALSE, FP \div 10, 0, <<0, 500 * FP>>) >>),
      Msg(BaseId + 2 * IdStep, ErrorResetRequest, 0, <<>>),
      Msg(BaseId + 3 * IdStep, InformationRequest, 1,
          << Sig("requestdInfo", 0, 8, LE, FALSE, FP, 0, <<>>) >>),
      Msg(BaseId + 4 * IdStep, SettingsModeRequest, 1,
          << Sig("request", 0, 1, LE, FALSE, FP, 0, <<>>) >>),
      Msg(BaseId + 5 * IdStep, <<"DCDC_", "Current", "Measures">>, 4,
          << Sig("iBus1", 0, 16, LE, TRUE, FP \div 10, 0, <<>>),
            Sig("iBus2", 16, 16, LE, TRUE, FP \div 10, 0, <<>>) >>),
      Msg(BaseId + 6 * IdStep, <<"DCDC_", "Voltage", "Measures">>, 4,
          << Sig("vBus1", 0, 16, LE, FALSE, FP \div 10, 0, <<>>),
            Sig("vBus2", 16, 16, LE, FALSE, FP \div 10, 0, <<>>) >>),
      Msg(BaseId + 7 * IdStep, <<"DCDC_", "Power", "Measures">>, 4,
          << Sig("pBus1", 0, 16, LE, TRUE, FP, 0, <<>>),
            Sig("pBus2", 16, 16, LE, TRUE, FP, 0, <<>>) >>),
      Msg(BaseId + 8 * IdStep, <<"DCDC_", "Temperature", "Measures">>, 2,
          << Sig("TempMaxTransfo", 0, 8, LE, TRUE, FP, 0, <<>>),
            Sig("TempAmbiant", 15, 8, BE, TRUE, FP, 0, <<>>) >>),
      Msg(BaseId + 9 * IdStep, <<"DCDC_", "Errors">>, 2,
          << Sig("criticalErrors", 0, 8, LE, FALSE, FP, 0, <<>>),
            Sig("functionalErrors", 8, 8, LE, FALSE, FP, 0, <<>>) >>),
      Msg(BaseId + 10 * IdStep, <<"DCDC_", "Warnings">>, 1,
          << Sig("warnings", 0, 8, LE, FALSE, FP, 0, <<>>) >>),
      Msg(BaseId + 11 * IdStep, <<"DCDC_", "Regulation", "Information">>, 3,
          << Sig("softwareMode", 0, 4, LE, FALSE, FP, 0, <<>>),
            Sig("setpoint", 8, 16, LE, TRUE, FP \div 10, 0, <<>>) >>),
      Msg(BaseId + 12 * IdStep, <<"DCDC_", "Control", "Information">>, 3,
          << Sig("controlType", 0, 4, LE, FALSE, FP, 0, <<>>),
            Sig("converterMode", 4, 4, LE, FALSE, FP, 0, <<>>),
            Sig("currentLimit", 8, 16, LE, FALSE, FP \div 10, 0, <<>>) >>) }

\* f'_{dcdc_id}' if dcdc_id > 0 else ''
Suffix(unit) == IF unit > 0 THEN <<"_", ToString(unit)>> ELSE <<>>

\* copy `unit` of a base message in the expanded catalog
UnitCopy(m, unit) == [m EXCEPT !.frame_id = m.frame_id + unit, !.name = m.name \o Suffix(unit)]

FullCatalog == {UnitCopy(m, unit) : m \in BaseMessages, unit \in 0 .. NumUnits - 1}

\* a catalog in which no unit has the message `base`
Without(base) ==
    {m \in FullCatalog : \A unit \in 0 .. NumUnits - 1 : m.name # base \o Suffix(unit)}

NoControlCatalog == Without(ControlRequest)
NoModeCatalog == Without(ModeRequest)

\* the catalog files a session can be constructed on
DbcFiles == {"3units", "no_control_request", "no_mode_request"}

\* cantools.database.load_file
load_file(file) ==
    CASE file = "3units" -> FullCatalog
      [] file = "no_control_request" -> NoControlCatalog
      [] file = "no_mode_request" -> NoModeCatalog

\* db.get_message_by_name / db.get_message_by_frame_id raise KeyError when
\* the catalog has no such message
HasName(catalog, name) == \E m \in catalog : m.name = name
get_message_by_name(catalog, name) == CHOOSE m \in catalog : m.name = name
HasFrameId(catalog, frame_id) == \E m \in catalog : m.frame_id = frame_id
get_message_by_frame_id(catalog, frame_id) == CHOOSE m \in catalog : m.frame_id = frame_id

\* `sub in name`
Contains(name, sub) ==
    \E i \in 1 .. Len(name) - Len(sub) + 1 : SubSeq(name, i, i + Len(sub) - 1) = sub

\* ------------------------------------------------------------------- state

VARIABLES
    dbc_file,         \* the catalog file the session was constructed on
    dcdc_id,          \* self.dcdc_id: the unit this session controls
    measurements,     \* self.measurements: category -> decoded values
    errors,           \* self.errors
    warnings,         \* self.warnings
    regulation_info,  \* self.regulation_info
    control_info,     \* self.control_info
    commanded,        \* the bus: startCommand of the last control request sent, <<>> if none
    nrx,              \* the bus: frames delivered to this session so far
    npolls,           \* the bus: bus.recv calls this session has made so far
    bus_up,           \* the bus: the transport accepts bus.send and bus.recv calls
    is_monitoring,    \* monitor: self.is_monitoring
    can_bus,          \* monitor: self.can_handler.bus, 0 for None, else the bus object
    bus_shut,         \* monitor: the bus objects that were shut down
    threads,          \* monitor: the receiver threads started so far
    main_pc,          \* monitor: where the main thread is in stop_monitoring
    config,           \* ConfigManager: self.config
    defaults,         \* ConfigManager.DEFAULT_CONFIG, the class attribute, and the
                      \* top-level keys under which self.config holds the very dict
                      \* the class attribute holds
    logger,           \* DataLogger: is_logging, log_file, csv_writer, data_buffer
    rx,               \* receive_messages run step by step against the clock: where
                      \* the call is, its timeout, the time elapsed since start_time
    expansion,        \* expand_dbc: the last call's input lines, num_units and output
    readers,          \* reader threads: the accessor each is in and the entries of the
                      \* returned dict it has evaluated so far
    last              \* the most recent call: operation, arguments, outcome (and, for
                      \* a receive, whether it came right after a start)

cache == <<measurements, errors, warnings, regulation_info, control_info>>

\* the monitor application's state, and whatever else the controller's
\* methods leave alone
app_vars == <<is_monitoring, can_bus, bus_shut, threads, main_pc>>
others == <<app_vars, readers, expansion, config, defaults, logger, rx>>

vars == <<dbc_file, dcdc_id, measurements, errors, warnings, regulation_info, control_info,
          commanded, nrx, npolls, bus_up, last, others>>

EmptyDict == [x \in {} |-> 0]

\* self.db: the loaded catalog
db == load_file(dbc_file)

\* the cache as __init__ leaves it
DefaultErrors == [critical |-> 0, functional |-> 0]

\* self.dcdc_suffix
dcdc_suffix == Suffix(dcdc_id)

\* _get_message_name
get_message_name(base_name) == base_name \o dcdc_suffix

\* can.Message(arbitration_id=message.frame_id, data=data, is_extended_id=True)
Frame(message, data) ==
    [arbitration_id |-> message.frame_id, data |-> data, is_extended_id |-> TRUE]

\* Python's int() on a float: truncation toward zero
IntTrunc(x) == IF x >= 0 THEN x \div FP ELSE -((-x) \div FP)

\* What a call did: the exception that reached the caller (None if it
\* returned), the frames bus.send accepted in order, the (message name,
\* values) pairs it handed to message.encode in order, and the frames
\* bus.send rejected, one entry per rejected call.
Outcome(raised, sent, encoded) ==
    [raised |-> raised, sent |-> sent, encoded |-> encoded, rejected |-> <<>>]

\* mutant: a rejected frame is sent a second time
Request_with_retry(base_name, data) ==
    LET msg_name == get_message_name(base_name)
    IN  IF ~HasName(db, msg_name)
        THEN Outcome("KeyError", <<>>, <<>>)
        ELSE LET message == get_message_by_name(db, msg_name)
                 handed == <<[message |-> msg_name, data |-> data]>>
             IN  IF ~Encodable(message, data)
                 THEN Outcome("EncodeError", <<>>, handed)
                 ELSE LET msg == Frame(message, Encode(message, data))
                      IN  IF bus_up
                          THEN Outcome(None, <<msg>>, handed)
                          ELSE [Outcome("CanError", <<>>, handed)
                                   EXCEPT !.rejected = <<msg, msg>>]

\* The body shared by the outbound operations: look the message up by name,
\* encode the values, wrap the payload in an extended frame, send it.
Request(base_name, data) ==
    LET msg_name == get_message_name(base_name)
    IN  IF ~HasName(db, msg_name)
        THEN Outcome("KeyError", <<>>, <<>>)
        ELSE LET message == get_message_by_name(db, msg_name)
                 handed == <<[message |-> msg_name, data |-> data]>>
             IN  IF ~Encodable(message, data)
                 THEN Outcome("EncodeError", <<>>, handed)
                 ELSE LET msg == Frame(message, Encode(message, data))
                      IN  IF bus_up
                          THEN Outcome(None, <<msg>>, handed)
                          ELSE [Outcome("CanError", <<>>, handed) EXCEPT !.rejected = <<msg>>]

\* mutant: the converter is stopped before its mode is changed
set_mode_stops_first(converter_mode, control_type) ==
    LET stop == Request(ControlRequest,
                        [startCommand |-> 0, setpointReq |-> 0, currentLimitReq |-> 0])
        mode == Request(ModeRequest, [converterModeReq |-> converter_mode * FP,
                                      controlTypeReq |-> control_type * FP])
    IN  IF stop.raised # None
        THEN stop
        ELSE [mode EXCEPT !.sent = stop.sent \o @, !.encoded = stop.encoded \o @]

set_mode(converter_mode, control_type) ==
    Request(ModeRequest, [converterModeReq |-> converter_mode * FP,
                          controlTypeReq |-> control_type * FP])

\* mutant: the setpoint is never scaled, as in set_setpoint
setpoint_raw_unscaled(setpoint, control_type) == IntTrunc(setpoint)

\* "Convert setpoint based on control type"
setpoint_raw(setpoint, control_type) ==
    IF control_type \in {ControlType.V_BUS1, ControlType.V_BUS2,
                         ControlType.V_BUS1_ILIM, ControlType.V_BUS2_ILIM}
    THEN IntTrunc(setpoint * 10)
    ELSE IF control_type \in {ControlType.I_BUS1, ControlType.I_BUS2}
    THEN IntTrunc(setpoint * 10)
    ELSE IntTrunc(setpoint)

ControlRequestOfStart(setpoint, control_type, current_limit) ==
    Request(ControlRequest, [startCommand |-> 1 * FP,
                             setpointReq |-> setpoint_raw(setpoint, control_type) * FP,
                             currentLimitReq |-> current_limit])

\* mutant: the control request is sent first, the mode selection after it
start_converter_control_first(setpoint, control_type, converter_mode, current_limit) ==
    LET ctl == ControlRequestOfStart(setpoint, control_type, current_limit)
    IN  IF ctl.raised # None
        THEN ctl
        ELSE LET mode == set_mode(converter_mode, control_type)
             IN  [mode EXCEPT !.sent = ctl.sent \o @, !.encoded = ctl.encoded \o @]

start_converter(setpoint, control_type, converter_mode, current_limit) ==
    LET mode == set_mode(converter_mode, control_type)
    IN  IF mode.raised # None
        THEN mode
        ELSE LET ctl == ControlRequestOfStart(setpoint, control_type, current_limit)
             IN  [ctl EXCEPT !.sent = mode.sent \o @, !.encoded = mode.encoded \o @]

\* mutant: a converter that is already stopped is not stopped again
stop_converter_once ==
    IF commanded = <<0>>
    THEN Outcome(None, <<>>, <<>>)
    ELSE Request(ControlRequest,
                 [startCommand |-> 0, setpointReq |-> 0, currentLimitReq |-> 0])

stop_converter ==
    Request(ControlRequest, [startCommand |-> 0, setpointReq |-> 0, currentLimitReq |-> 0])

\* mutant: the start command repeats the converter's commanded state
set_setpoint_keeps_state(setpoint, current_limit) ==
    Request(ControlRequest, [startCommand |-> IF commanded = <<1>> THEN 1 * FP ELSE 0,
                             setpointReq |-> IntTrunc(setpoint) * FP,
                             currentLimitReq |-> current_limit])

set_setpoint(setpoint, current_limit) ==
    Request(ControlRequest, [startCommand |-> 1 * FP,
                             setpointReq |-> IntTrunc(setpoint) * FP,
                             currentLimitReq |-> current_limit])

reset_errors == Request(ErrorResetRequest, EmptyDict)

request_information(info_type) ==
    Request(InformationRequest, [requestdInfo |-> info_type * FP])

\* ----------------------------------------------------------------- the bus

IsControlRequestFrame(frame) ==
    LET msg_name == get_message_name(ControlRequest)
    IN  /\ HasName(db, msg_name)
        /\ frame.arbitration_id = get_message_by_name(db, msg_name).frame_id

\* the startCommand the converter reads from a control-request frame
StartCommandOf(frame) ==
    Decode(get_message_by_name(db, get_message_name(ControlRequest)), frame.data).startCommand
        \div FP

\* the converter's commanded state after the frames `sent` reach it
RECURSIVE Commanded(_, _)
Commanded(before, sent) ==
    IF sent = <<>> THEN before
    ELSE Commanded(IF IsControlRequestFrame(Head(sent))
                   THEN <<StartCommandOf(Head(sent))>>
                   ELSE before,
                   Tail(sent))

\* ----------------------------------------------------------------- actions

\* mutant: an outbound operation that also forgets the cached error report
Transmit_clearing_errors(op, args, outcome) ==
    \E out \in {outcome} :
        /\ last' = [op |-> op, after_start |-> FALSE, args |-> args, was |-> commanded,
                    raised |-> out.raised, sent |-> out.sent, encoded |-> out.encoded,
                    rejected |-> out.rejected, polls |-> 0, ret |-> None]
        /\ commanded' = Commanded(commanded, out.sent)
        /\ errors' = DefaultErrors
        /\ UNCHANGED <<dbc_file, dcdc_id, measurements, warnings, regulation_info,
                       control_info, nrx, npolls, bus_up, others>>

\* an outbound operation called with `args`, with outcome `out`
Transmit(op, args, outcome) ==
    \E out \in {outcome} :
        /\ last' = [op |-> op, after_start |-> FALSE, args |-> args, was |-> commanded,
                    raised |-> out.raised, sent |-> out.sent, encoded |-> out.encoded,
                    rejected |-> out.rejected, polls |-> 0, ret |-> None]
        /\ commanded' = Commanded(commanded, out.sent)
        /\ UNCHANGED <<dbc_file, dcdc_id, measurements, errors, warnings, regulation_info,
                       control_info, nrx, npolls, bus_up, others>>

StartConverter(setpoint, control_type, converter_mode, current_limit) ==
    Transmit("start_converter",
             [setpoint |-> setpoint, control_type |-> control_type,
              converter_mode |-> converter_mode, current_limit |-> current_limit],
             start_converter(setpoint, control_type, converter_mode, current_limit))

StopConverter == Transmit("stop_converter", EmptyDict, stop_converter)

SetMode(converter_mode, control_type) ==
    Transmit("set_mode",
             [converter_mode |-> converter_mode, control_type |-> control_type],
             set_mode(converter_mode, control_type))

SetSetpoint(setpoint, current_limit) ==
    Transmit("set_setpoint", [setpoint |-> setpoint, current_limit |-> current_limit],
             set_setpoint(setpoint, current_limit))

ResetErrors == Transmit("reset_errors", EmptyDict, reset_errors)

RequestInformation(info_type) ==
    Transmit("request_information", [info_type |-> info_type],
             request_information(info_type))

\* ----------------------------------------------------------------- receive

\* mutant: only the lookup failure is caught
CaughtKeyErrorOnly == {"KeyError"}

\* the exceptions the try block of receive_messages catches
CaughtExceptions == {"KeyError", "DecodeError"}

\* d[k] = v on a Python dict
Put(d, k, v) == [x \in DOMAIN d \cup {k} |-> IF x = k THEN v ELSE d[x]]

\* d.get(k, default)
Get(d, k, default) == IF k \in DOMAIN d THEN d[k] ELSE default

\* mutant: a measurement report replaces the whole measurements map
StoreInCache_replacing_measurements(st, msg_name, decoded) ==
    IF Contains(msg_name, <<"Current", "Measures">>)
    THEN [st EXCEPT !.measurements = Put(EmptyDict, "current", decoded)]
    ELSE IF Contains(msg_name, <<"Voltage", "Measures">>)
    THEN [st EXCEPT !.measurements = Put(EmptyDict, "voltage", decoded)]
    ELSE IF Contains(msg_name, <<"Power", "Measures">>)
    THEN [st EXCEPT !.measurements = Put(EmptyDict, "power", decoded)]
    ELSE IF Contains(msg_name, <<"Temperature", "Measures">>)
    THEN [st EXCEPT !.measurements = Put(EmptyDict, "temperature", decoded)]
    ELSE IF Contains(msg_name, <<"Errors">>)
    THEN [st EXCEPT !.errors = decoded]
    ELSE IF Contains(msg_name, <<"Warnings">>)
    THEN [st EXCEPT !.warnings = Get(decoded, "warnings", 0)]
    ELSE IF Contains(msg_name, <<"Regulation", "Information">>)
    THEN [st EXCEPT !.regulation_info = decoded]
    ELSE IF Contains(msg_name, <<"Control", "Information">>)
    THEN [st EXCEPT !.control_info = decoded]
    ELSE st

\* mutant: a voltage or error report is copied into the stored record signal
\* by signal, and the copy stops after the first signal
UpdateInPlace(old, decoded) ==
    IF DOMAIN old # DOMAIN decoded THEN decoded
    ELSE [x \in DOMAIN decoded |->
             IF x = (CHOOSE y \in DOMAIN decoded : TRUE) THEN decoded[x] ELSE old[x]]

StoreInCache_updating_in_place(st, msg_name, decoded) ==
    IF Contains(msg_name, <<"Current", "Measures">>)
    THEN [st EXCEPT !.measurements = Put(@, "current", decoded)]
    ELSE IF Contains(msg_name, <<"Voltage", "Measures">>)
    THEN [st EXCEPT !.measurements =
             Put(@, "voltage", UpdateInPlace(Get(@, "voltage", EmptyDict), decoded))]
    ELSE IF Contains(msg_name, <<"Power", "Measures">>)
    THEN [st EXCEPT !.measurements = Put(@, "power", decoded)]
    ELSE IF Contains(msg_name, <<"Temperature", "Measures">>)
    THEN [st EXCEPT !.measurements = Put(@, "temperature", decoded)]
    ELSE IF Contains(msg_name, <<"Errors">>)
    THEN [st EXCEPT !.errors = UpdateInPlace(@, decoded)]
    ELSE IF Contains(msg_name, <<"Warnings">>)
    THEN [st EXCEPT !.warnings = Get(decoded, "warnings", 0)]
    ELSE IF Contains(msg_name, <<"Regulation", "Information">>)
    THEN [st EXCEPT !.regulation_info = decoded]
    ELSE IF Contains(msg_name, <<"Control", "Information">>)
    THEN [st EXCEPT !.control_info = decoded]
    ELSE st

\* "Store in cache based on message type": the if / elif chain
StoreInCache(st, msg_name, decoded) ==
    IF Contains(msg_name, <<"Current", "Measures">>)
    THEN [st EXCEPT !.measurements = Put(@, "current", decoded)]
    ELSE IF Contains(msg_name, <<"Voltage", "Measures">>)
    THEN [st EXCEPT !.measurements = Put(@, "voltage", decoded)]
    ELSE IF Contains(msg_name, <<"Power", "Measures">>)
    THEN [st EXCEPT !.measurements = Put(@, "power", decoded)]
    ELSE IF Contains(msg_name, <<"Temperature", "Measures">>)
    THEN [st EXCEPT !.measurements = Put(@, "temperature", decoded)]
    ELSE IF Contains(msg_name, <<"Errors">>)
    THEN [st EXCEPT !.errors = decoded]
    ELSE IF Contains(msg_name, <<"Warnings">>)
    THEN [st EXCEPT !.warnings = Get(decoded, "warnings", 0)]
    ELSE IF Contains(msg_name, <<"Regulation", "Information">>)
    THEN [st EXCEPT !.regulation_info = decoded]
    ELSE IF Contains(msg_name, <<"Control", "Information">>)
    THEN [st EXCEPT !.control_info = decoded]
    ELSE st

\* an exception raised inside the try block
Except(st, exception) ==
    IF exception \in CaughtExceptions THEN st ELSE [st EXCEPT !.raised = exception]

\* The try block on one frame: look its message up, decode it, store the
\* decoded values and append them to the returned list.
TryDecode(st, msg) ==
    IF ~HasFrameId(db, msg.arbitration_id)
    THEN Except(st, "KeyError")
    ELSE LET db_msg == get_message_by_frame_id(db, msg.arbitration_id)
         IN  IF ~Decodable(db_msg, msg.data)
             THEN Except(st, "DecodeError")
             ELSE LET decoded == Decode(db_msg, msg.data)
                      stored == StoreInCache(st, db_msg.name, decoded)
                  IN  [stored EXCEPT !.decoded_messages =
                          Append(@, [name |-> db_msg.name, data |-> decoded])]

\* mutant: the poll that timed out is not skipped
ReceiveOne_without_none_check(st, poll) ==
    IF ~bus_up
    THEN [st EXCEPT !.polls = @ + 1, !.raised = "CanError"]
    ELSE IF poll = <<>>
    THEN Except([st EXCEPT !.polls = @ + 1], "AttributeError")
    ELSE TryDecode([st EXCEPT !.polls = @ + 1], poll[1])

\* One iteration of the while loop.  `poll` is what bus.recv returned: <<>>
\* for None (the poll timed out), <<msg>> for a frame; on a failed transport
\* bus.recv raises, outside the try block.
ReceiveOne(st, poll) ==
    IF ~bus_up
    THEN [st EXCEPT !.polls = @ + 1, !.raised = "CanError"]
    ELSE IF poll = <<>>
    THEN [st EXCEPT !.polls = @ + 1]
    ELSE TryDecode([st EXCEPT !.polls = @ + 1], poll[1])

\* the while loop over the polls that fit in the timeout, until one raises
RECURSIVE ReceiveLoop(_, _)
ReceiveLoop(st, polls) ==
    IF polls = <<>> \/ st.raised # None
    THEN st
    ELSE ReceiveLoop(ReceiveOne(st, Head(polls)), Tail(polls))

\* receive_messages(timeout), `polls` being what the bus.recv calls that fit
\* in the timeout return, in order
receive_messages(polls) ==
    ReceiveLoop([measurements |-> measurements, errors |-> errors, warnings |-> warnings,
                 regulation_info |-> regulation_info, control_info |-> control_info,
                 decoded_messages |-> <<>>, polls |-> 0, raised |-> None],
                polls)

\* number of frames among the polls
RECURSIVE FrameCount(_)
FrameCount(polls) ==
    IF polls = <<>> THEN 0 ELSE Len(Head(polls)) + FrameCount(Tail(polls))

ReceiveMessages(polls) ==
    /\ npolls + Len(polls) <= MaxPolls
    /\ bus_up \/ FrameCount(polls) = 0
    /\ \E st \in {receive_messages(polls)} :
        /\ measurements' = st.measurements
        /\ errors' = st.errors
        /\ warnings' = st.warnings
        /\ regulation_info' = st.regulation_info
        /\ control_info' = st.control_info
        /\ nrx' = nrx + FrameCount(polls)
        /\ npolls' = npolls + st.polls
        /\ last' = [op |-> "receive_messages",
                    after_start |-> last.op = "start_converter", args |-> [polls |-> polls],
                    was |-> commanded, raised |-> st.raised, sent |-> <<>>, encoded |-> <<>>,
                    rejected |-> <<>>, polls |-> st.polls,
                    ret |-> IF st.raised = None THEN st.decoded_messages ELSE None]
    /\ UNCHANGED <<dbc_file, dcdc_id, commanded, bus_up, others>>

\* ------------------------------------------------------------ read accessors

get_measurements ==
    [voltage |-> Get(measurements, "voltage", EmptyDict),
     current |-> Get(measurements, "current", EmptyDict),
     power |-> Get(measurements, "power", EmptyDict),
     temperature |-> Get(measurements, "temperature", EmptyDict)]

\* mutant: errors are reported only once one was received
get_status_without_zeroed_errors ==
    [control_info |-> control_info, regulation_info |-> regulation_info,
     errors |-> IF errors = DefaultErrors THEN EmptyDict ELSE errors, warnings |-> warnings]

get_status ==
    [control_info |-> control_info, regulation_info |-> regulation_info,
     errors |-> errors, warnings |-> warnings]

\* a read accessor called, returning `ret`
Read(op, ret) ==
    /\ last' = [op |-> op, after_start |-> FALSE, args |-> EmptyDict, was |-> commanded,
                raised |-> None,
                sent |-> <<>>, encoded |-> <<>>, rejected |-> <<>>, polls |-> 0,
                ret |-> ret]
    /\ UNCHANGED <<dbc_file, dcdc_id, measurements, errors, warnings, regulation_info,
                   control_info, commanded, nrx, npolls, bus_up, others>>

GetMeasurements == Read("get_measurements", get_measurements)

GetStatus == Read("get_status", get_status)

\* ------------------------------------------------------------------ inputs

\* setpoints: -2.45, 2.45, 24.0 and 400.0
Setpoints == {-(2 * FP + 45), 2 * FP + 45, 24 * FP, 400 * FP}
\* current limits: 200.0
CurrentLimits == {200 * FP}

\* inbound traffic: one frame of every report message of unit 0, a second
\* voltage report, a report of unit 1, a mode request another node sent, a
\* frame whose identifier no catalog holds, and an error report cut short
MessageOf(base_name, unit) == get_message_by_name(FullCatalog, base_name \o Suffix(unit))

Inbound(base_name, unit, data) ==
    Frame(MessageOf(base_name, unit), Encode(MessageOf(base_name, unit), data))

UnknownFrame ==
    [arbitration_id |-> 291, data |-> <<0, 0, 0, 0, 0, 0, 0, 0>>, is_extended_id |-> FALSE]

ShortFrame == [Inbound(<<"DCDC_", "Errors">>, 0,
                       [criticalErrors |-> 3 * FP, functionalErrors |-> 1 * FP])
               EXCEPT !.data = <<3>>]

RxFrames ==
    { Inbound(<<"DCDC_", "Current", "Measures">>, 0,
              [iBus1 |-> 12 * FP + 50, iBus2 |-> -30 * FP]),
      Inbound(<<"DCDC_", "Voltage", "Measures">>, 0,
              [vBus1 |-> 48 * FP, vBus2 |-> 24 * FP]),
      Inbound(<<"DCDC_", "Voltage", "Measures">>, 0,
              [vBus1 |-> 47 * FP + 90, vBus2 |-> 12 * FP]),
      Inbound(<<"DCDC_", "Power", "Measures">>, 0,
              [pBus1 |-> 600 * FP, pBus2 |-> -580 * FP]),
      Inbound(<<"DCDC_", "Temperature", "Measures">>, 0,
              [TempMaxTransfo |-> 61 * FP, TempAmbiant |-> -4 * FP]),
      Inbound(<<"DCDC_", "Errors">>, 0,
              [criticalErrors |-> 3 * FP, functionalErrors |-> 1 * FP]),
      Inbound(<<"DCDC_", "Warnings">>, 0, [warnings |-> 5 * FP]),
      Inbound(<<"DCDC_", "Regulation", "Information">>, 0,
              [softwareMode |-> 2 * FP, setpoint |-> 24 * FP]),
      Inbound(<<"DCDC_", "Control", "Information">>, 0,
              [controlType |-> 1 * FP, converterMode |-> 1 * FP, currentLimit |-> 200 * FP]),
      Inbound(<<"DCDC_", "Current", "Measures">>, 1,
              [iBus1 |-> 7 * FP, iBus2 |-> 8 * FP]),
      Inbound(ModeRequest, 0, [converterModeReq |-> 1 * FP, controlTypeReq |-> 1 * FP]),
      UnknownFrame,
      ShortFrame }

\* What the bus.recv calls of one receive_messages call can return: each
\* <<>> (None: the poll timed out) or <<frame>>, the frames drawn from
\* `frames`, and no more polls than the run still allows.
Batches(frames) ==
    UNION { [1 .. n -> {<<>>} \cup {<<f>> : f \in frames}] : n \in 0 .. MaxPolls - npolls }

\* ConfigManager.DEFAULT_CONFIG, of which the model keeps a plain setting, a
\* table of plain settings and a table of tables.  A dict is a function from
\* its keys, any other value a record with the one field val.
\* isinstance(value, dict)
IsDict(value) == "val" \notin DOMAIN value

DEFAULT_CONFIG ==
    [theme |-> [val |-> "default"],
     alarms |-> [enable_sound |-> [val |-> "True"], overvoltage_threshold |-> [val |-> "850"]],
     converters |-> [DCDC_Primary |-> [alias |-> [val |-> "Converter 1"]]]]

\* the monitor application after __init__: not monitoring, no bus handle
InitMonitor ==
    /\ is_monitoring = FALSE
    /\ can_bus = 0
    /\ bus_shut = {}
    /\ threads = <<>>
    /\ main_pc = "idle"

\* the session after __init__, constructed for any unit on any catalog file
InitAny ==
    /\ dbc_file \in DbcFiles
    /\ dcdc_id \in 0 .. NumUnits - 1
    /\ measurements = EmptyDict
    /\ errors = DefaultErrors
    /\ warnings = 0
    /\ regulation_info = EmptyDict
    /\ control_info = EmptyDict
    /\ commanded = <<>>
    /\ nrx = 0
    /\ npolls = 0
    /\ bus_up = TRUE
    /\ InitMonitor
    /\ readers = [r \in 1 .. MaxReaders |-> [op |-> "idle", got |-> EmptyDict]]
    /\ expansion = [lines |-> <<>>, num_units |-> 0, new_lines |-> <<>>]
    /\ config = DEFAULT_CONFIG
    /\ defaults = [config |-> DEFAULT_CONFIG,
                   shared |-> {k \in DOMAIN DEFAULT_CONFIG : IsDict(DEFAULT_CONFIG[k])}]
    /\ logger = [is_logging |-> FALSE, log_file |-> 0, csv_writer |-> 0, data_buffer |-> <<>>,
                 opened |-> 0, rows |-> <<>>, format |-> None, logged |-> 0]
    /\ rx = [pc |-> "idle", timeout |-> 0, elapsed |-> 0, waited |-> FALSE, polls |-> 0,
             decoded_messages |-> <<>>, was |-> <<>>]
    /\ last = [op |-> "__init__", after_start |-> FALSE, args |-> EmptyDict, was |-> <<>>,
               raised |-> None, sent |-> <<>>, encoded |-> <<>>, rejected |-> <<>>, polls |-> 0,
               ret |-> None]

\* the session constructed on the expanded catalog
Init == InitAny /\ dbc_file = "3units"

\* the session constructed for unit 0
InitUnit0 == Init /\ dcdc_id = 0

\* start_converter alone, over every enumerator of the two enumerations, on
\* every catalog file
NextStart ==
    \E setpoint \in Setpoints, control_type \in Range(ControlType),
       converter_mode \in Range(ConverterMode), current_limit \in CurrentLimits :
       StartConverter(setpoint, control_type, converter_mode, current_limit)

SpecStart == InitAny /\ [][NextStart]_vars

\* The whole session: the outbound operations on the arguments of the
\* module's own example (start 24.0 V on bus 2, then set_setpoint(120, 150.0)),
\* on the start's own setpoint sent again and on a setpoint of 4000, receive on light traffic (a voltage report, an error report, a frame that
\* is not in the catalog) and the read accessors.
ScenarioFrames ==
    {Inbound(<<"DCDC_", "Voltage", "Measures">>, 0, [vBus1 |-> 48 * FP, vBus2 |-> 24 * FP]),
     Inbound(<<"DCDC_", "Errors">>, 0,
             [criticalErrors |-> 3 * FP, functionalErrors |-> 1 * FP]),
     UnknownFrame}

Next ==
    \/ StartConverter(24 * FP, ControlType.V_BUS2, ConverterMode.BUS1_TO_BUS2, 200 * FP)
    \/ StopConverter
    \/ SetMode(ConverterMode.BIDIRECTIONAL, ControlType.P_BUS1)
    \/ \E setpoint \in {24 * FP, 120 * FP, 4000 * FP} : SetSetpoint(setpoint, 150 * FP)
    \/ ResetErrors
    \/ \E info_type \in Range(RequestedInfo) : RequestInformation(info_type)
    \/ \E polls \in Batches(ScenarioFrames) : ReceiveMessages(polls)
    \/ GetMeasurements
    \/ GetStatus

Spec == Init /\ [][Next]_vars

\* The receive path alone, on the full traffic.
NextRx ==
    \/ \E polls \in Batches(RxFrames) : ReceiveMessages(polls)
    \/ GetMeasurements
    \/ GetStatus

SpecRx == Init /\ [][NextRx]_vars

\* The transport fails, or comes back, between two calls.
TransportChanges ==
    /\ bus_up' = ~bus_up
    /\ UNCHANGED <<dbc_file, dcdc_id, measurements, errors, warnings, regulation_info,
                   control_info, commanded, nrx, npolls, last, others>>

\* The whole session on a transport that can fail.
NextBus == Next \/ TransportChanges

SpecBus == Init /\ [][NextBus]_vars

\* ------------------------------------------------------ monitor application
\* DCDCMonitorApp's monitoring session: the main thread runs the button
\* handlers, each receiver thread runs receive_messages.  A thread is
\* [pc, handle, stopped, failed, used_shut]: where it is in its loop, the bus
\* object its bus.recv call is running on, and three records of its history:
\* stop_monitoring has cleared the flag since it was started, a bus.recv call of
\* its raised on a failed transport, it called bus.recv on a shut-down bus.

\* the session's state as a controller method leaves it
session_unchanged ==
    UNCHANGED <<dbc_file, dcdc_id, measurements, errors, warnings, regulation_info,
                control_info, commanded, nrx, npolls, last, readers, expansion, config, defaults, logger, rx>>

\* start_monitoring (the Start button, enabled while not monitoring):
\* connect, set the flag, start a receiver thread
StartMonitoring ==
    /\ main_pc = "idle"
    /\ ~is_monitoring
    /\ Len(threads) < MaxSessions
    /\ can_bus' = Len(threads) + 1
    /\ is_monitoring' = TRUE
    /\ threads' = Append(threads, [pc |-> "while", handle |-> 0, stopped |-> FALSE,
                                   failed |-> FALSE, used_shut |-> FALSE])
    /\ UNCHANGED <<bus_shut, main_pc, bus_up>>
    /\ session_unchanged

\* stop_monitoring (the Stop button, enabled while monitoring), statement by
\* statement: clear the flag, then CANBusHandler.disconnect: shut the bus
\* down if there is one, then forget it
StopMonitoring ==
    /\ \/ /\ main_pc = "idle"
          /\ is_monitoring
          /\ is_monitoring' = FALSE
          /\ threads' = [t \in DOMAIN threads |->
                            IF threads[t].pc = "done" THEN threads[t]
                            ELSE [threads[t] EXCEPT !.stopped = TRUE]]
          /\ main_pc' = "disconnect"
          /\ UNCHANGED <<can_bus, bus_shut>>
       \/ /\ main_pc = "disconnect"
          /\ bus_shut' = IF can_bus # 0 THEN bus_shut \cup {can_bus} ELSE bus_shut
          /\ main_pc' = IF can_bus # 0 THEN "release" ELSE "idle"
          /\ UNCHANGED <<is_monitoring, can_bus, threads>>
       \/ /\ main_pc = "release"
          /\ can_bus' = 0
          /\ main_pc' = "idle"
          /\ UNCHANGED <<is_monitoring, bus_shut, threads>>
    /\ UNCHANGED bus_up
    /\ session_unchanged

\* One step of receiver thread t.  "while": the loop condition.  "check":
\* receive_message's `if not self.bus` (ConnectionError, caught by the loop).
\* "call": self.bus.recv is looked up and called (AttributeError on None,
\* caught by the loop).  "recv": the call ends: it raises on a bus that was
\* shut down or on a failed transport (caught by the loop), else it returns a
\* message, which is queued, or None.
ReceiverStep(t) ==
    /\ threads[t].pc # "done"
    /\ threads' = [threads EXCEPT ![t] =
          CASE @.pc = "while" -> [@ EXCEPT !.pc = IF is_monitoring THEN "check" ELSE "done"]
            [] @.pc = "check" -> [@ EXCEPT !.pc = IF can_bus = 0 THEN "while" ELSE "call"]
            [] @.pc = "call" -> IF can_bus = 0
                                THEN [@ EXCEPT !.pc = "while"]
                                ELSE [@ EXCEPT !.pc = "recv", !.handle = can_bus,
                                               !.used_shut = @ \/ can_bus \in bus_shut]
            [] @.pc = "recv" -> [@ EXCEPT !.pc = "while", !.handle = 0,
                                          !.failed = @ \/ (threads[t].handle \notin bus_shut
                                                           /\ ~bus_up)]]
    /\ UNCHANGED <<is_monitoring, can_bus, bus_shut, main_pc, bus_up>>
    /\ session_unchanged

NextMonitor ==
    \/ StartMonitoring
    \/ StopMonitoring
    \/ \E t \in DOMAIN threads : ReceiverStep(t)
    \/ TransportChanges

SpecMonitor == InitUnit0 /\ [][NextMonitor]_vars

\* --------------------------------------------------------- concurrent readers
\* Threads that call get_measurements / get_status while another thread is in
\* the receive loop.  CPython runs one bytecode at a time: a store into the
\* cache (self.measurements['current'] = decoded, self.errors = decoded) is one
\* step, and so is the evaluation of one entry of the dict display an accessor
\* returns; a thread switch can fall between any two of them.

\* the entries of the returned dict, in the order the display evaluates them
AccessorKeys ==
    [get_measurements |-> <<"voltage", "current", "power", "temperature">>,
     get_status |-> <<"control_info", "regulation_info", "errors", "warnings">>]

\* a reader thread enters an accessor
ReaderCalls(r, op) ==
    /\ readers[r].op = "idle"
    /\ readers' = [readers EXCEPT ![r] = [op |-> op, got |-> EmptyDict]]
    /\ UNCHANGED <<dbc_file, dcdc_id, measurements, errors, warnings, regulation_info,
                   control_info, commanded, nrx, npolls, bus_up, last, app_vars, expansion, config, defaults, logger, rx>>

\* a reader thread evaluates the next entry of the dict it returns; with the
\* last entry the accessor returns
ReaderReads(r) ==
    /\ readers[r].op # "idle"
    /\ LET op == readers[r].op
           n == Cardinality(DOMAIN readers[r].got) + 1
           k == AccessorKeys[op][n]
           v == IF op = "get_measurements" THEN get_measurements[k] ELSE get_status[k]
       IN  readers' = [readers EXCEPT ![r].got = Put(@, k, v),
                                      ![r].op = IF n = Len(AccessorKeys[op])
                                                THEN "idle" ELSE op]
    /\ UNCHANGED <<dbc_file, dcdc_id, measurements, errors, warnings, regulation_info,
                   control_info, commanded, nrx, npolls, bus_up, last, app_vars, expansion, config, defaults, logger, rx>>

\* the frames of the concurrent scenario: two voltage reports and an error
\* report
ReaderFrames ==
    {Inbound(<<"DCDC_", "Voltage", "Measures">>, 0, [vBus1 |-> 48 * FP, vBus2 |-> 24 * FP]),
     Inbound(<<"DCDC_", "Voltage", "Measures">>, 0,
             [vBus1 |-> 47 * FP + 90, vBus2 |-> 12 * FP]),
     Inbound(<<"DCDC_", "Errors">>, 0,
             [criticalErrors |-> 3 * FP, functionalErrors |-> 1 * FP])}

\* One thread in the receive loop, a frame at a time, and the reader threads.
NextReaders ==
    \/ \E f \in ReaderFrames : ReceiveMessages(<<<<f>>>>)
    \/ \E r \in DOMAIN readers, op \in DOMAIN AccessorKeys : ReaderCalls(r, op)
    \/ \E r \in DOMAIN readers : ReaderReads(r)

SpecReaders == InitUnit0 /\ [][NextReaders]_vars

\* ------------------------------------------------- the caller's returned dict
\* An accessor returns a new dict whose entries are the objects the cache
\* holds: get_status puts self.control_info, self.regulation_info and
\* self.errors themselves into it, get_measurements the dicts stored in
\* self.measurements (a new {} for a category not stored yet).  The warnings
\* entry is an int.

\* entry k of the dict `op` returned is the object the cache holds
IsCachedObject(op, k) ==
    IF op = "get_measurements" THEN k \in DOMAIN measurements
    ELSE k \in {"control_info", "regulation_info", "errors"}

\* The caller of the accessor that has just returned executes
\* ret[k][field] = value on the dict it was given.
ModifyReturned(k, field, value) ==
    /\ last.op \in DOMAIN AccessorKeys
    /\ k \in DOMAIN last.ret /\ k # "warnings"
    /\ LET modified == Put(last.ret[k], field, value)
           cached == IsCachedObject(last.op, k)
       IN  /\ last' = [last EXCEPT !.op = "modify_returned",
                                   !.args = [of |-> last.op, key |-> k],
                                   !.ret = Put(@, k, modified)]
           /\ measurements' = IF cached /\ last.op = "get_measurements"
                               THEN Put(measurements, k, modified) ELSE measurements
           /\ errors' = IF cached /\ k = "errors" THEN modified ELSE errors
           /\ regulation_info' = IF cached /\ k = "regulation_info"
                                  THEN modified ELSE regulation_info
           /\ control_info' = IF cached /\ k = "control_info"
                               THEN modified ELSE control_info
    /\ UNCHANGED <<dbc_file, dcdc_id, warnings, commanded, nrx, npolls, bus_up, others>>

\* Receive, read, and a caller that writes into what it read.
NextCaller ==
    \/ \E f \in ReaderFrames : ReceiveMessages(<<<<f>>>>)
    \/ GetMeasurements
    \/ GetStatus
    \/ \E k \in {"voltage", "current", "errors", "control_info"},
          field \in {"vBus1", "criticalErrors"} : ModifyReturned(k, field, 0)

SpecCaller == InitUnit0 /\ [][NextCaller]_vars

\* ------------------------------------------------------------- configuration
\* ConfigManager.get and ConfigManager.set; `keys` is key.split('.').

\* get: the walk down the keys
RECURSIVE config_get(_, _, _)
config_get(value, keys, default) ==
    IF keys = <<>> THEN value
    ELSE IF IsDict(value) /\ Head(keys) \in DOMAIN value
    THEN config_get(value[Head(keys)], Tail(keys), default)
    ELSE default

\* set on the dict `current`: [current, raised].  A key that is missing on the
\* way gets a new dict; `k not in current`, current[k] = {} or current[k] on a
\* value that is no dict, and the final assignment into one, raise TypeError.
RECURSIVE config_set(_, _, _)
config_set(current, keys, value) ==
    IF ~IsDict(current) THEN [current |-> current, raised |-> "TypeError"]
    ELSE IF Len(keys) = 1 THEN [current |-> Put(current, keys[1], value), raised |-> None]
    ELSE LET below == config_set(Get(current, Head(keys), EmptyDict), Tail(keys), value)
         IN  [current |-> Put(current, Head(keys), below.current), raised |-> below.raised]

ConfigCall(op, key, value, raised, ret) ==
    /\ last' = [op |-> op, after_start |-> FALSE, args |-> [key |-> key, value |-> value],
                was |-> commanded, raised |-> raised, sent |-> <<>>, encoded |-> <<>>,
                rejected |-> <<>>, polls |-> 0, ret |-> ret]
    /\ UNCHANGED <<dbc_file, dcdc_id, measurements, errors, warnings, regulation_info,
                   control_info, commanded, nrx, npolls, bus_up, app_vars, readers, expansion, logger, rx>>

\* config.set(key, value).  self.config is a shallow copy of the class
\* attribute: a dict it holds under a top-level key is the class attribute's
\* own until the key is assigned anew, and a change inside it shows in both.
ConfigSet(key, value) ==
    /\ config' = config_set(config, key, value).current
    /\ defaults' =
          IF Len(key) = 1
          THEN [defaults EXCEPT !.shared = @ \ {key[1]}]
          ELSE IF key[1] \in defaults.shared
          THEN [defaults EXCEPT !.config[key[1]] = config_set(config, key, value).current[key[1]]]
          ELSE defaults
    /\ ConfigCall("set", key, value, config_set(config, key, value).raised, [val |-> "None"])

\* config.get(key, default)
ConfigGet(key, default) ==
    /\ config' = config
    /\ defaults' = defaults
    /\ ConfigCall("get", key, default, None, config_get(config, key, default))

\* reset_to_defaults(), and __init__ / load() of a new ConfigManager whose
\* config file does not exist (self.config is the new instance's from then
\* on): self.config = self.DEFAULT_CONFIG.copy(), a shallow copy
LoadDefaults(op) ==
    /\ config' = defaults.config
    /\ defaults' = [defaults EXCEPT
                       !.shared = {k \in DOMAIN defaults.config : IsDict(defaults.config[k])}]
    /\ ConfigCall(op, <<>>, [val |-> "None"], None, [val |-> "None"])

\* set and get on plain keys and on nested keys two and three deep, with and
\* without a table on the way; the values are plain
NextConfig ==
    \/ \E op \in {"reset_to_defaults", "ConfigManager"} : LoadDefaults(op)
    \/ \E key \in {<<"theme">>, <<"theme", "color">>, <<"alarms", "enable_sound">>,
                    <<"alarms", "limits", "low">>, <<"test_key">>,
                    <<"nested", "test", "key">>, <<"nested", "test">>},
          value \in {[val |-> "red"], [val |-> "test_value"]} :
           ConfigSet(key, value) \/ ConfigGet(key, value)

SpecConfig == InitUnit0 /\ [][NextConfig]_vars

\* ---------------------------------------------------------------- data logger
\* DataLogger.  self.log_file and self.csv_writer are 0 for None, else the
\* number of the file that was opened (for the writer: of the file it writes
\* to); the files opened so far are 1 .. logger.opened and every one of them
\* but self.log_file is closed.  logger.rows is the open file's content, the
\* kind of each line written to it (header, csv row, json line), and
\* logger.format the log_format of the call that opened it.  logger.logged
\* counts the log_data calls and is the timestamp of the next point.

LoggerCall(op, args, raised, ret) ==
    /\ last' = [op |-> op, after_start |-> FALSE, args |-> args, was |-> logger,
                raised |-> raised, sent |-> <<>>, encoded |-> <<>>, rejected |-> <<>>,
                polls |-> 0, ret |-> ret]
    /\ UNCHANGED <<dbc_file, dcdc_id, measurements, errors, warnings, regulation_info,
                   control_info, commanded, nrx, npolls, bus_up, app_vars, readers, expansion,
                   config, defaults, rx>>

\* start_logging with the early return taken out
StartLogging_reopening(log_format) ==
    /\ logger.opened < MaxFiles
    /\ logger' = [logger EXCEPT
                     !.log_file = logger.opened + 1,
                     !.opened = @ + 1,
                     !.csv_writer = IF log_format = "csv" THEN logger.opened + 1 ELSE @,
                     !.rows = IF log_format = "csv" THEN <<"header">> ELSE <<>>,
                     !.format = log_format,
                     !.is_logging = TRUE]
    /\ LoggerCall("start_logging", [log_format |-> log_format], None, None)

\* start_logging(log_format): returns at once while logging; else opens a new
\* file, for 'csv' with a writer that writes the header row, and sets the flag
StartLogging(log_format) ==
    /\ logger.is_logging \/ logger.opened < MaxFiles
    /\ logger' = IF logger.is_logging THEN logger
                 ELSE [logger EXCEPT
                          !.log_file = logger.opened + 1,
                          !.opened = @ + 1,
                          !.csv_writer = IF log_format = "csv" THEN logger.opened + 1 ELSE @,
                          !.rows = IF log_format = "csv" THEN <<"header">> ELSE <<>>,
                          !.format = log_format,
                          !.is_logging = TRUE]
    /\ LoggerCall("start_logging", [log_format |-> log_format], None, None)

\* stop_logging(): returns at once while not logging; else closes the file,
\* forgets it and clears the flag (self.csv_writer stays)
StopLogging ==
    /\ logger' = IF ~logger.is_logging THEN logger
                 ELSE [logger EXCEPT
                          !.log_file = 0,
                          !.rows = IF logger.log_file # 0 THEN <<>> ELSE @,
                          !.is_logging = FALSE]
    /\ LoggerCall("stop_logging", EmptyDict, None, None)

\* log_data(converter, can_id, message_name, data): the point goes into the
\* deque, which drops its oldest point when it is full; then, while logging,
\* a row goes to the file through the csv writer if there is one, else as a
\* JSON line.  A csv writer left over from a closed file raises ValueError.
LogData(converter, can_id, message_name, data) ==
    /\ logger.logged < MaxLogged
    /\ \E data_point \in {[timestamp |-> logger.logged, converter |-> converter,
                           can_id |-> can_id, message_name |-> message_name, data |-> data]},
          writes \in {logger.is_logging /\ logger.log_file # 0} :
        \E stale \in {writes /\ logger.csv_writer # 0 /\ logger.csv_writer # logger.log_file} :
            /\ logger' = [logger EXCEPT
                             !.data_buffer = IF Len(@) >= MaxBuffer
                                             THEN Append(Tail(@), data_point)
                                             ELSE Append(@, data_point),
                             !.logged = @ + 1,
                             !.rows = IF writes /\ ~stale
                                      THEN Append(@, IF logger.csv_writer # 0
                                                     THEN "csv" ELSE "json")
                                      ELSE @]
            /\ LoggerCall("log_data", data_point, IF stale THEN "ValueError" ELSE None, None)

\* get_buffer_data(converter, limit): the deque as a list, filtered when
\* `converter` is truthy, then data[-limit:], which starts at len - limit (at
\* 0 if that is negative) for a positive limit and at -limit (at most len)
\* otherwise
GetBufferData(converter, limit) ==
    /\ logger' = logger
    /\ \E data \in {SelectSeq(logger.data_buffer,
                              LAMBDA d : converter = None \/ d.converter = converter)} :
        \E start \in {IF limit > 0
                      THEN (IF Len(data) > limit THEN Len(data) - limit ELSE 0)
                      ELSE (IF -limit < Len(data) THEN -limit ELSE Len(data))} :
            LoggerCall("get_buffer_data", [converter |-> converter, limit |-> limit], None,
                       SubSeq(data, start + 1, Len(data)))

\* points of two converters; limits below, at and above the number of points
\* that can be in the buffer
NextLogger ==
    \/ \E log_format \in {"csv", "json"} : StartLogging(log_format)
    \/ StopLogging
    \/ \E converter \in {"DCDC_Primary", "DCDC_Primary_1"} :
           LogData(converter, 291, "TestMsg", [input_voltage |-> 400 * FP])
    \/ \E converter \in {None, "DCDC_Primary", "DCDC_Primary_1"}, limit \in -1 .. MaxBuffer + 1 :
           GetBufferData(converter, limit)

SpecLogger == InitUnit0 /\ [][NextLogger]_vars

\* ------------------------------------------------------ converter of a frame
\* DCDCMonitorApp.identify_converter(can_id).  Identifiers are written as in
\* the catalog file, less 2^31: 2148532224 is 1048576, 2148532480 is 1048832
\* and 2148532736 is 1049088.

\* the loop over one base only
identify_converter_first_base(can_id, i) ==
    IF can_id = 1048576 THEN "DCDC_Primary"
    ELSE IF can_id = 1048576 + 1 THEN "DCDC_Primary_1"
    ELSE IF can_id = 1048576 + 2 THEN "DCDC_Primary_2"
    ELSE None

\* the loop over base_ids, from its i-th entry on
RECURSIVE identify_converter(_, _)
identify_converter(can_id, i) ==
    LET base_ids == <<1048576, 1048832, 1049088>>
    IN  IF i > Len(base_ids) THEN None
        ELSE IF can_id = base_ids[i] THEN "DCDC_Primary"
        ELSE IF can_id = base_ids[i] + 1 THEN "DCDC_Primary_1"
        ELSE IF can_id = base_ids[i] + 2 THEN "DCDC_Primary_2"
        ELSE identify_converter(can_id, i + 1)

IdentifyConverter(can_id) ==
    /\ last' = [op |-> "identify_converter", after_start |-> FALSE,
                args |-> [can_id |-> can_id], was |-> commanded, raised |-> None,
                sent |-> <<>>, encoded |-> <<>>, rejected |-> <<>>, polls |-> 0,
                ret |-> identify_converter(can_id, 1)]
    /\ UNCHANGED <<dbc_file, dcdc_id, measurements, errors, warnings, regulation_info,
                   control_info, commanded, nrx, npolls, bus_up, others>>

\* every identifier from below the first base to above the last one, the
\* same identifiers without the extended-frame flag of the catalog file
\* (less 2^31 again), and a few small ones
NextIdentify ==
    \E can_id \in (1048576 - 20 .. 1049088 + 20)
                    \cup {id - 2147483647 - 1 : id \in 1048576 - 20 .. 1049088 + 20}
                    \cup 0 .. 3 :
        IdentifyConverter(can_id)

SpecIdentify == InitUnit0 /\ [][NextIdentify]_vars

\* ------------------------------------------------------- receive, on the clock
\* receive_messages(timeout) statement by statement, with the time that passes.
\* Time is counted in units of 0.1 s, the time one bus.recv(timeout=0.1) call
\* waits before it returns None; a frame may arrive at any moment.
\* rx.elapsed is time.time() - start_time, counted up to MaxBudget, rx.waited
\* whether the recv call in progress has waited its 0.1 s, rx.polls the
\* bus.recv calls of this receive_messages call, counted up to MaxPolls + 1,
\* rx.decoded_messages the first MaxPolls + 1 entries of the list, rx.was the
\* cache at the call.

\* the call: decoded_messages = [], start_time = time.time().  The call is
\* the most recent one from now on, its outcome pending.
ReceiveCall(timeout) ==
    /\ rx.pc = "idle"
    /\ rx' = [pc |-> "while", timeout |-> timeout, elapsed |-> 0, waited |-> FALSE,
              polls |-> 0, decoded_messages |-> <<>>, was |-> cache]
    /\ last' = [op |-> "receive_messages", after_start |-> FALSE,
                args |-> [timeout |-> timeout], was |-> cache, raised |-> "pending",
                sent |-> <<>>, encoded |-> <<>>, rejected |-> <<>>, polls |-> 0, ret |-> None]
    /\ UNCHANGED <<dbc_file, dcdc_id, cache, commanded, nrx, npolls, bus_up, app_vars,
                   readers, expansion, config, defaults, logger>>

\* mutant: the loop condition lets an iteration start at the timeout itself
LoopTest_inclusive ==
    /\ rx.pc = "while"
    /\ rx' = [rx EXCEPT !.pc = IF rx.elapsed <= rx.timeout THEN "recv" ELSE "idle",
                        !.waited = FALSE]
    /\ last' = IF rx.elapsed <= rx.timeout THEN last
               ELSE [op |-> "receive_messages", after_start |-> FALSE,
                     args |-> [timeout |-> rx.timeout], was |-> rx.was, raised |-> None,
                     sent |-> <<>>, encoded |-> <<>>, rejected |-> <<>>, polls |-> rx.polls,
                     ret |-> rx.decoded_messages]
    /\ UNCHANGED <<dbc_file, dcdc_id, cache, commanded, nrx, npolls, bus_up, app_vars,
                   readers, expansion, config, defaults, logger>>

\* while time.time() - start_time < timeout: enter the body and call
\* bus.recv, or return decoded_messages
LoopTest ==
    /\ rx.pc = "while"
    /\ rx' = [rx EXCEPT !.pc = IF rx.elapsed < rx.timeout THEN "recv" ELSE "idle",
                        !.waited = FALSE]
    /\ last' = IF rx.elapsed < rx.timeout THEN last
               ELSE [op |-> "receive_messages", after_start |-> FALSE,
                     args |-> [timeout |-> rx.timeout], was |-> rx.was, raised |-> None,
                     sent |-> <<>>, encoded |-> <<>>, rejected |-> <<>>, polls |-> rx.polls,
                     ret |-> rx.decoded_messages]
    /\ UNCHANGED <<dbc_file, dcdc_id, cache, commanded, nrx, npolls, bus_up, app_vars,
                   readers, expansion, config, defaults, logger>>

\* bus.recv returns `poll`, a frame at any moment or None after its 0.1 s,
\* and the rest of the loop body runs on it; an exception it lets through
\* ends the call
Recv(poll) ==
    /\ rx.pc = "recv"
    /\ poll = <<>> => rx.waited
    /\ \E st \in {ReceiveOne([measurements |-> measurements, errors |-> errors,
                              warnings |-> warnings, regulation_info |-> regulation_info,
                              control_info |-> control_info,
                              decoded_messages |-> rx.decoded_messages, polls |-> rx.polls,
                              raised |-> None], poll)} :
        /\ measurements' = st.measurements
        /\ errors' = st.errors
        /\ warnings' = st.warnings
        /\ regulation_info' = st.regulation_info
        /\ control_info' = st.control_info
        /\ rx' = [rx EXCEPT
                     !.pc = IF st.raised = None THEN "while" ELSE "idle",
                     !.polls = IF st.polls > MaxPolls THEN MaxPolls + 1 ELSE st.polls,
                     !.decoded_messages = IF Len(st.decoded_messages) > MaxPolls + 1
                                          THEN @ ELSE st.decoded_messages]
        /\ last' = IF st.raised = None THEN last
                   ELSE [op |-> "receive_messages", after_start |-> FALSE,
                         args |-> [timeout |-> rx.timeout], was |-> rx.was,
                         raised |-> st.raised, sent |-> <<>>, encoded |-> <<>>,
                         rejected |-> <<>>, polls |-> rx'.polls, ret |-> None]
    /\ UNCHANGED <<dbc_file, dcdc_id, commanded, nrx, npolls, bus_up, app_vars, readers,
                   expansion, config, defaults, logger>>

\* 0.1 s pass while the call runs; a bus.recv call that has waited that long
\* returns before more time passes
Tick ==
    /\ rx.pc # "idle"
    /\ ~(rx.pc = "recv" /\ rx.waited)
    /\ rx.elapsed < MaxBudget \/ rx.pc = "recv"
    /\ rx' = [rx EXCEPT !.elapsed = IF @ < MaxBudget THEN @ + 1 ELSE @,
                        !.waited = rx.pc = "recv"]
    /\ UNCHANGED <<dbc_file, dcdc_id, cache, commanded, nrx, npolls, bus_up, last, app_vars,
                   readers, expansion, config, defaults, logger>>

\* what bus.recv can return: None, a voltage report, a frame that is not in
\* the catalog
TimedPolls ==
    {<<>>, <<UnknownFrame>>,
     <<Inbound(<<"DCDC_", "Voltage", "Measures">>, 0, [vBus1 |-> 48 * FP, vBus2 |-> 24 * FP])>>}

\* timeouts of -0.1 s to MaxBudget * 0.1 s, on a transport that can fail
NextTimed ==
    \/ \E timeout \in -1 .. MaxBudget : ReceiveCall(timeout)
    \/ LoopTest
    \/ \E poll \in TimedPolls : Recv(poll)
    \/ Tick
    \/ TransportChanges

\* the thread that called receive_messages keeps running, bus.recv returns,
\* and time passes
SpecTimed ==
    /\ InitUnit0
    /\ [][NextTimed]_vars
    /\ WF_vars(LoopTest)
    /\ WF_vars(\E poll \in TimedPolls : Recv(poll))
    /\ WF_vars(Tick)

\* --------------------------------------------------------- the bus handler
\* CANBusHandler: self.bus is can_bus, 0 for None, else the bus object, the
\* bus objects numbered in the order can.Bus created them; bus_shut holds the
\* ones that were shut down.  self.db is the catalog the handler loaded.
\* Each call records in `last` the handle and the shut-down objects it found
\* (was), the can.Message it built (encoded), the messages bus.send took
\* (sent) and the number of bus.recv calls it made (polls).

\* the bus objects created so far: the newest is the one held or the one
\* shut down last
created == CHOOSE n \in bus_shut \cup {can_bus} : \A m \in bus_shut \cup {can_bus} : m <= n

HandlerCall(op, args, raised, encoded, sent, polls, ret) ==
    /\ last' = [op |-> op, after_start |-> FALSE, args |-> args,
                was |-> [bus |-> can_bus, shut |-> bus_shut], raised |-> raised,
                sent |-> sent, encoded |-> encoded, rejected |-> <<>>, polls |-> polls,
                ret |-> ret]
    /\ UNCHANGED <<dbc_file, dcdc_id, cache, commanded, nrx, npolls, bus_up, is_monitoring,
                   threads, main_pc, readers, expansion, config, defaults, logger, rx>>

\* connect(interface): can.Bus with bustype socketcan; if that raises, can.Bus
\* with bustype virtual; if that raises too, ConnectionError.  `can_Bus` is
\* the constructor call that succeeded, "fail" if neither did.  The new
\* object replaces the handle, whatever the handle was.
Connect(interface, can_Bus) ==
    /\ can_Bus # "fail" => created < MaxConnects
    /\ can_bus' = IF can_Bus = "fail" THEN can_bus ELSE created + 1
    /\ UNCHANGED bus_shut
    /\ HandlerCall("connect", [interface |-> interface, can_Bus |-> can_Bus],
                   IF can_Bus = "fail" THEN "ConnectionError" ELSE None, <<>>, <<>>, 0, None)

\* mutant: disconnect shuts the bus down and keeps the handle
Disconnect_keeping_handle ==
    /\ bus_shut' = IF can_bus # 0 THEN bus_shut \cup {can_bus} ELSE bus_shut
    /\ UNCHANGED can_bus
    /\ HandlerCall("disconnect", EmptyDict, None, <<>>, <<>>, 0, None)

\* disconnect(): if self.bus: self.bus.shutdown(); self.bus = None
Disconnect ==
    /\ bus_shut' = IF can_bus # 0 THEN bus_shut \cup {can_bus} ELSE bus_shut
    /\ can_bus' = 0
    /\ HandlerCall("disconnect", EmptyDict, None, <<>>, <<>>, 0, None)

\* send_message(can_id, data): ConnectionError without a handle; else build
\* the can.Message, extended above 0x7FF, and bus.send it, which raises on a
\* failed transport
SendMessage(can_id, data) ==
    /\ UNCHANGED <<can_bus, bus_shut>>
    /\ \E message \in {[arbitration_id |-> can_id, data |-> data,
                        is_extended_id |-> can_id > 2047]} :
        IF can_bus = 0
        THEN HandlerCall("send_message", [can_id |-> can_id, data |-> data],
                         "ConnectionError", <<>>, <<>>, 0, None)
        ELSE IF ~bus_up
        THEN HandlerCall("send_message", [can_id |-> can_id, data |-> data],
                         "CanError", <<message>>, <<>>, 0, None)
        ELSE HandlerCall("send_message", [can_id |-> can_id, data |-> data],
                         None, <<message>>, <<message>>, 0, None)

\* one hexadecimal digit, as format "X" or bytes.hex() writes it
HexDigit(d, upper) ==
    IF upper
    THEN <<"0", "1", "2", "3", "4", "5", "6", "7", "8", "9", "A", "B", "C", "D", "E", "F">>[d + 1]
    ELSE <<"0", "1", "2", "3", "4", "5", "6", "7", "8", "9", "a", "b", "c", "d", "e", "f">>[d + 1]

\* f"{n:X}": the digits of n, most significant first, no padding
RECURSIVE Hex(_)
Hex(n) == IF n < 16 THEN <<HexDigit(n, TRUE)>> ELSE Append(Hex(n \div 16), HexDigit(n % 16, TRUE))

\* data.hex(): two lower-case digits for every byte
RECURSIVE data_hex(_)
data_hex(data) ==
    IF data = <<>> THEN <<>>
    ELSE <<HexDigit(Head(data) \div 16, FALSE), HexDigit(Head(data) % 16, FALSE)>>
             \o data_hex(Tail(data))

\* what receive_message makes of a frame: the name and the signal values of
\* the catalog's message, or "0x" and the identifier and no values when the
\* catalog has no such message or the payload does not decode
CANMessageOf(message) ==
    IF HasFrameId(db, message.arbitration_id)
       /\ Decodable(get_message_by_frame_id(db, message.arbitration_id), message.data)
    THEN [can_id |-> message.arbitration_id,
          name |-> get_message_by_frame_id(db, message.arbitration_id).name,
          data |-> Decode(get_message_by_frame_id(db, message.arbitration_id), message.data),
          data_hex |-> data_hex(message.data)]
    ELSE [can_id |-> message.arbitration_id,
          name |-> IF HasFrameId(db, message.arbitration_id)
                   THEN get_message_by_frame_id(db, message.arbitration_id).name
                   ELSE <<"0x">> \o Hex(message.arbitration_id),
          data |-> EmptyDict,
          data_hex |-> data_hex(message.data)]

\* receive_message(timeout): ConnectionError without a handle; else one
\* bus.recv, which raises on a failed transport and returns `poll`: <<>> for
\* None, returned as None, or <<msg>>, returned as a CANMessage
ReceiveMessage(timeout, poll) ==
    /\ UNCHANGED <<can_bus, bus_shut>>
    /\ IF can_bus = 0
       THEN HandlerCall("receive_message", [timeout |-> timeout], "ConnectionError",
                        <<>>, <<>>, 0, None)
       ELSE IF ~bus_up
       THEN HandlerCall("receive_message", [timeout |-> timeout], "CanError",
                        <<>>, <<>>, 1, None)
       ELSE IF poll = <<>>
       THEN HandlerCall("receive_message", [timeout |-> timeout], None, <<>>, <<>>, 1, None)
       ELSE HandlerCall("receive_message", [timeout |-> timeout], None, <<>>, <<>>, 1,
                        CANMessageOf(poll[1]))

\* any calls in any order, on a transport that can fail: connect to can0 or
\* vcan0, send a standard and an extended frame, receive with a 0.1 s timeout
NextHandler ==
    \/ \E interface \in {"can0", "vcan0"}, can_Bus \in {"socketcan", "virtual", "fail"} :
          Connect(interface, can_Bus)
    \/ Disconnect
    \/ \E can_id \in {2047, 2048}, data \in {<<>>, <<1, 171>>} : SendMessage(can_id, data)
    \/ \E poll \in TimedPolls : ReceiveMessage(1, poll)
    \/ TransportChanges

SpecHandler == InitUnit0 /\ [][NextHandler]_vars

\* ----------------------------------------------------------- codec round trip
\* CANBusHandler.encode_message(message_name, data), which turns every failure
\* of message.encode into a ValueError, and the decoding of the payload it
\* returned by the receiver of the frame (db_message.decode).
EncodeThenDecode(message, data) ==
    /\ last' = [op |-> "encode_message", after_start |-> FALSE,
                args |-> [message_name |-> message.name, data |-> data], was |-> commanded,
                raised |-> IF Encodable(message, data) THEN None ELSE "ValueError",
                sent |-> <<>>, encoded |-> <<>>, rejected |-> <<>>, polls |-> 0,
                ret |-> IF Encodable(message, data)
                        THEN [payload |-> Encode(message, data),
                              decoded |-> Decode(message, Encode(message, data))]
                        ELSE [payload |-> <<>>, decoded |-> EmptyDict]]
    /\ UNCHANGED <<dbc_file, dcdc_id, measurements, errors, warnings, regulation_info,
                   control_info, commanded, nrx, npolls, bus_up, others>>

\* the values handed to the encoder: -4.0, 0, 1.0, 12.34, 61.0 and 600.0, for
\* the signals of a request with a declared range, of a report with unsigned
\* signals and of the report that has a big-endian signal
NextCodec ==
    \E name \in {ControlRequest, <<"DCDC_", "Voltage", "Measures">>,
                  <<"DCDC_", "Temperature", "Measures">>} :
        \E data \in [SignalNames(get_message_by_name(db, name)) ->
                         {-(4 * FP), 0, FP, 12 * FP + 34, 61 * FP, 600 * FP}] :
            EncodeThenDecode(get_message_by_name(db, name), data)

SpecCodec == InitUnit0 /\ [][NextCodec]_vars

\* --------------------------------------------------------- catalog expansion
\* expand_dbc.py.  A file is a sequence of lines, a line a record of the parts
\* the script splits it into; texts are sequences of tokens, the node name
\* DCDC_Primary being the tokens "DCDC_", "Primary", so that `in` and
\* str.replace work on substrings.  "DCDC_" is the only token in which the
\* text DCDC occurs.  Frame identifiers are the DBC's minus 2^31 (every message
\* is an extended frame); comment lines carry a payload.

SubjectNode == <<"DCDC_", "Primary">>

\* the identifiers the script takes for those of converter messages
DcdcIdMin == 1048576
DcdcIdMax == 158334976

\* s.replace(old, new)
RECURSIVE Replace(_, _, _)
Replace(s, old, new) ==
    IF Len(s) < Len(old) THEN s
    ELSE IF SubSeq(s, 1, Len(old)) = old
    THEN new \o Replace(SubSeq(s, Len(old) + 1, Len(s)), old, new)
    ELSE <<Head(s)>> \o Replace(Tail(s), old, new)

\* the index of the last of the SG_ lines that follow line i
LastSignal(lines, i) ==
    CHOOSE j \in i .. Len(lines) :
        /\ \A x \in i + 1 .. j : lines[x].kind = "SG_"
        /\ j = Len(lines) \/ lines[j + 1].kind # "SG_"

\* parse_messages and the search for msg_data: the signal lines of the first
\* message of the file that has this identifier
SignalsOf(lines, can_id) ==
    LET first == CHOOSE i \in 1 .. Len(lines) :
                     /\ lines[i].kind = "BO_" /\ lines[i].can_id = can_id
                     /\ \A x \in 1 .. i - 1 :
                            ~(lines[x].kind = "BO_" /\ lines[x].can_id = can_id)
    IN  SubSeq(lines, first + 1, LastSignal(lines, first))

\* mutant: every message is generated for all units
InvolvesDcdc_always(bo) == TRUE

\* "Check if this message involves DCDC"
InvolvesDcdc(bo) == Contains(bo.sender, SubjectNode) \/ Contains(bo.name, <<"DCDC_">>)

\* mutant: the copies keep the identifier of the original
MessageCopy_same_id(bo, unit_id) ==
    [bo EXCEPT !.name = @ \o Suffix(unit_id),
               !.sender = Replace(@, SubjectNode, SubjectNode \o Suffix(unit_id))]

\* mutant: the copy for unit 0 gets a suffix as well
MessageCopy_suffix_for_all(bo, unit_id) ==
    [bo EXCEPT !.can_id = @ + unit_id,
               !.name = @ \o <<"_", ToString(unit_id)>>,
               !.sender = Replace(@, SubjectNode, SubjectNode \o Suffix(unit_id))]

\* mutant: two units share an identifier
MessageCopy_paired_ids(bo, unit_id) ==
    [bo EXCEPT !.can_id = @ + (unit_id \div 2),
               !.name = @ \o Suffix(unit_id),
               !.sender = Replace(@, SubjectNode, SubjectNode \o Suffix(unit_id))]

\* the message definition written for unit_id
MessageCopy(bo, unit_id) ==
    [bo EXCEPT !.can_id = @ + unit_id,
               !.name = @ \o Suffix(unit_id),
               !.sender = Replace(@, SubjectNode, SubjectNode \o Suffix(unit_id))]

\* the signal line written for unit_id; the text of a signal line is the
\* sequence of its words: the signal's name, its layout, then its receivers
SignalCopy(sig_line, unit_id) ==
    IF (\E w \in DOMAIN sig_line.text : Contains(sig_line.text[w], SubjectNode))
       /\ unit_id > 0
    THEN [sig_line EXCEPT !.text =
             [w \in DOMAIN @ |-> Replace(@[w], SubjectNode, SubjectNode \o Suffix(unit_id))]]
    ELSE sig_line

\* mutant: the records of every message are duplicated
InDcdcRange_always(can_id) == TRUE

\* "Range of DCDC messages"
InDcdcRange(can_id) == can_id >= DcdcIdMin /\ can_id <= DcdcIdMax

RECURSIVE Flatten(_)
Flatten(seqs) == IF seqs = <<>> THEN <<>> ELSE Head(seqs) \o Flatten(Tail(seqs))

Line(kind, text) == [kind |-> kind, text |-> text]
Keyed(kind, can_id, text) == [kind |-> kind, can_id |-> can_id, text |-> text]
Blank == Line("blank", <<>>)

\* What one iteration of the main loop appends for line i, and the index of
\* the line the next iteration looks at.
ExpandLine(lines, i, num_units) ==
    LET line == lines[i]
        PerUnit(l) == [x \in 1 .. num_units |-> [l EXCEPT !.can_id = @ + (x - 1)]]
        Out(new, next) == [new |-> new, next |-> next]
    IN  CASE line.kind = "BU_" ->
              Out(<<Line("BU_", <<"SUPERVISER">> \o SubjectNode \o SubjectNode \o Suffix(1)
                                   \o SubjectNode \o Suffix(2))>>, i + 1)
          [] line.kind = "BO_" ->
              IF InvolvesDcdc(line)
              THEN Out(Flatten([x \in 1 .. num_units |->
                           <<MessageCopy(line, x - 1)>>
                           \o [y \in 1 .. Len(SignalsOf(lines, line.can_id)) |->
                                  SignalCopy(SignalsOf(lines, line.can_id)[y], x - 1)]
                           \o <<Blank>>]),
                       LastSignal(lines, i) + 1)
              ELSE Out(SubSeq(lines, i, LastSignal(lines, i)), LastSignal(lines, i) + 1)
          [] line.kind \in {"CM_BO", "CM_SG", "BA_BO", "VAL_"} ->
              IF InDcdcRange(line.can_id)
              THEN Out(PerUnit(line), i + 1)
              ELSE Out(<<line>>, i + 1)
          [] line.kind = "CM_BU" /\ SubSeq(line.text, 1, 2) = SubjectNode ->
              Out(<<line, Line("CM_BU", SubjectNode \o Suffix(1) \o <<"interface">>),
                    Line("CM_BU", SubjectNode \o Suffix(2) \o <<"interface">>)>>, i + 1)
          [] line.kind = "BA_BU" /\ SubSeq(line.text, 1, 2) = SubjectNode ->
              Out(<<line, Line("BA_BU", SubjectNode \o Suffix(1) \o <<"1">>),
                    Line("BA_BU", SubjectNode \o Suffix(2) \o <<"2">>)>>, i + 1)
          [] OTHER -> Out(<<line>>, i + 1)

\* the main loop from line i on
RECURSIVE ExpandFrom(_, _, _)
ExpandFrom(lines, i, num_units) ==
    IF i > Len(lines) THEN <<>>
    ELSE ExpandLine(lines, i, num_units).new
         \o ExpandFrom(lines, ExpandLine(lines, i, num_units).next, num_units)

\* the input catalogs: the version, the node list, then any
\* of six messages each with its signal lines, an attribute definition, the
\* node's comment and address, then any kinds of record for each of those
\* messages.  Status is sent by the converter, ModeRequest and ControlRequest
\* by the supervisor to the converter, Heartbeat is the supervisor's own; Diag is
\* a converter message with an 11-bit style identifier, a signal named after
\* the node and a receiver DCDC_Primary_Aux; Limits is a converter message
\* whose identifier is Status's plus 2.
InputMessages ==
    [Status |->
        <<[kind |-> "BO_", can_id |-> DcdcIdMin + 9 * IdStep, name |-> <<"DCDC_", "Status">>,
           dlc |-> 2, sender |-> SubjectNode],
          Line("SG_", <<<<"state">>, <<"0|8@1+">>, <<"SUPERVISER">>>>)>>,
     ModeRequest |->
        <<[kind |-> "BO_", can_id |-> DcdcIdMin, name |-> ModeRequest,
           dlc |-> 1, sender |-> <<"SUPERVISER">>],
          Line("SG_", <<<<"converterModeReq">>, <<"0|4@1+">>, SubjectNode>>),
          Line("SG_", <<<<"controlTypeReq">>, <<"4|4@1+">>, SubjectNode, <<"LOGGER">>>>)>>,
     ControlRequest |->
        <<[kind |-> "BO_", can_id |-> DcdcIdMin + IdStep, name |-> ControlRequest,
           dlc |-> 8, sender |-> <<"SUPERVISER">>],
          Line("SG_", <<<<"startCommand">>, <<"0|1@1+">>, SubjectNode>>)>>,
     Heartbeat |->
        <<[kind |-> "BO_", can_id |-> DcdcIdMax + IdStep, name |-> <<"SUP_", "Heartbeat">>,
           dlc |-> 1, sender |-> <<"SUPERVISER">>],
          Line("SG_", <<<<"alive">>, <<"0|1@1+">>, SubjectNode>>)>>,
     Diag |->
        <<[kind |-> "BO_", can_id |-> IdStep, name |-> <<"DCDC_", "Diag">>,
           dlc |-> 2, sender |-> SubjectNode],
          Line("SG_", <<SubjectNode \o <<"_Temp">>, <<"0|8@1-">>, <<"SUPERVISER">>>>),
          Line("SG_", <<<<"aux">>, <<"8|8@1+">>, SubjectNode \o <<"_Aux">>>>)>>,
     Limits |->
        <<[kind |-> "BO_", can_id |-> DcdcIdMin + 9 * IdStep + 2,
           name |-> <<"DCDC_", "Limits">>, dlc |-> 1, sender |-> SubjectNode],
          Line("SG_", <<<<"limit">>, <<"0|8@1+">>, <<"SUPERVISER">>>>)>>]

RecordKinds == <<"CM_BO", "CM_SG", "BA_BO", "VAL_">>

InputFiles ==
    { <<Line("VERSION", <<>>), Line("BU_", <<"SUPERVISER">> \o SubjectNode)>>
      \o Flatten([m \in 1 .. Len(order) |-> InputMessages[order[m]]])
      \o <<Line("BA_DEF_", <<"GenMsgCycleTime">>),
           Line("CM_BU", SubjectNode \o <<"interface">>),
           Line("BA_BU", SubjectNode \o <<"0">>)>>
      \o Flatten([m \in 1 .. Len(order) |->
             Flatten([k \in 1 .. Len(RecordKinds) |->
                 IF RecordKinds[k] \in kinds
                 THEN <<Keyed(RecordKinds[k], InputMessages[order[m]][1].can_id,
                              <<"text", RecordKinds[k], order[m]>>)>>
                 ELSE <<>>])]) :
      order \in {<<"Status">>, <<"ModeRequest">>, <<"Heartbeat">>, <<"Diag">>,
                 <<"Status", "Heartbeat">>, <<"ModeRequest", "Status">>,
                 <<"Heartbeat", "Diag", "ModeRequest">>,
                 <<"ModeRequest", "Status", "Diag", "Heartbeat">>,
                 <<"Status", "Limits">>, <<"Limits", "Heartbeat">>,
                 <<"ModeRequest", "ControlRequest">>},
      kinds \in SUBSET Range(RecordKinds) }

\* expand_dbc_for_multiple_units(input_file, output_file, num_units), which a
\* run of the script calls once
ExpandDbc(lines, num_units) ==
    /\ expansion.lines = <<>>
    /\ expansion' = [lines |-> lines, num_units |-> num_units,
                     new_lines |-> ExpandFrom(lines, 1, num_units)]
    /\ UNCHANGED <<dbc_file, dcdc_id, measurements, errors, warnings, regulation_info,
                   control_info, commanded, nrx, npolls, bus_up, last, app_vars, readers,
                   config, defaults, logger, rx>>

NextExpand == \E lines \in InputFiles, num_units \in 0 .. MaxUnits : ExpandDbc(lines, num_units)

SpecExpand == InitUnit0 /\ [][NextExpand]_vars

\* ==================================================================== claims

\* the two messages start_converter targets, for this session's unit
ModeMessage == get_message_by_name(db, ModeRequest \o Suffix(dcdc_id))
ControlMessage == get_message_by_name(db, ControlRequest \o Suffix(dcdc_id))

HasBothTargets ==
    /\ HasName(db, ModeRequest \o Suffix(dcdc_id))
    /\ HasName(db, ControlRequest \o Suffix(dcdc_id))

\* the frame is a mode-selection frame carrying the two values
IsModeSelection(frame, converter_mode, control_type) ==
    /\ frame.arbitration_id = ModeMessage.frame_id
    /\ frame.is_extended_id
    /\ Decode(ModeMessage, frame.data) =
          [converterModeReq |-> converter_mode * FP, controlTypeReq |-> control_type * FP]

\* the frame is a control-request frame with the given startCommand
IsControlRequest(frame, start_command) ==
    /\ frame.arbitration_id = ControlMessage.frame_id
    /\ frame.is_extended_id
    /\ Decode(ControlMessage, frame.data).startCommand = start_command * FP

\* the frame is addressed to one of the two targets
IsModeId(frame) == frame.arbitration_id = ModeMessage.frame_id
IsControlId(frame) == frame.arbitration_id = ControlMessage.frame_id

\* -------------------------------------------------------------------- C1
\* C1 as stated: on a session whose catalog contains both target messages,
\* every start sends exactly two frames, the mode selection carrying
\* converterMode and controlType and then the control request with
\* startCommand = 1.  (Violated: a setpoint that does not fit its signal
\* field makes start raise after the mode selection was sent.)
C1_StartAlwaysSendsTwoFrames ==
    (last.op = "start_converter" /\ HasBothTargets) =>
        /\ Len(last.sent) = 2
        /\ IsModeSelection(last.sent[1], last.args.converter_mode, last.args.control_type)
        /\ IsControlRequest(last.sent[2], 1)

\* C1 amended: on a session whose catalog contains both target messages, a
\* start whose control-request values can be encoded sends exactly two frames,
\* the mode selection carrying converterMode and controlType and then the
\* control request with startCommand = 1, and returns; a start whose values
\* cannot be encoded fails having sent at most the mode selection; and no
\* start, whatever its values, sends a control request that the mode
\* selection does not precede.
C1_StartSendsModeThenControl ==
    (last.op = "start_converter" /\ HasBothTargets) =>
        /\ Len(last.encoded) = 2
        /\ IF Encodable(ControlMessage, last.encoded[2].data)
           THEN /\ last.raised = None
                /\ Len(last.sent) = 2
                /\ IsModeSelection(last.sent[1], last.args.converter_mode,
                                   last.args.control_type)
                /\ IsControlRequest(last.sent[2], 1)
           ELSE /\ last.raised # None
                /\ Len(last.sent) <= 1
        /\ \A i \in 1 .. Len(last.sent) : IsControlId(last.sent[i]) => i = 2
        /\ last.sent # <<>> =>
              IsModeSelection(last.sent[1], last.args.converter_mode, last.args.control_type)

\* a start of unit 1 that sent both frames
C1_Witness ==
    /\ last.op = "start_converter"
    /\ HasBothTargets
    /\ dcdc_id = 1
    /\ last.args.converter_mode = ConverterMode.BIDIRECTIONAL
    /\ last.raised = None
    /\ Len(last.sent) = 2
    /\ IsControlRequest(last.sent[2], 1)

\* -------------------------------------------------------------------- C2
\* the frame every stop sends: the unit's control request, all signals zero
StopFrame ==
    [arbitration_id |-> ControlMessage.frame_id, data |-> <<0, 0, 0, 0, 0, 0, 0, 0>>,
     is_extended_id |-> TRUE]

\* C2: whatever the controller state it is called in (never started, after
\* set_mode, active, already stopped), stop returns and sends exactly one
\* control-request frame with startCommand = 0, setpointReq = 0 and
\* currentLimitReq = 0; the frame is the same frame on every call, so two
\* consecutive stops send identical frames.
C2_StopSendsOneZeroFrame ==
    last.op = "stop_converter" =>
        /\ last.raised = None
        /\ last.sent = <<StopFrame>>
        /\ Decode(ControlMessage, last.sent[1].data) =
              [startCommand |-> 0, setpointReq |-> 0, currentLimitReq |-> 0]
        /\ commanded = <<0>>

\* a stop called on a converter that was already stopped
C2_Witness ==
    /\ last.op = "stop_converter"
    /\ last.was = <<0>>
    /\ last.sent = <<StopFrame>>

\* -------------------------------------------------------------------- C3
\* C3 as stated: every set_setpoint sends exactly one control-request frame
\* with startCommand = 1.  (Violated: a setpoint that does not fit its signal
\* field makes set_setpoint raise without sending.)
C3_SetSetpointAlwaysSendsOneFrame ==
    last.op = "set_setpoint" =>
        /\ Len(last.sent) = 1
        /\ IsControlRequest(last.sent[1], 1)

\* C3 amended: in every controller state, a set_setpoint whose setpoint and
\* current limit can be encoded returns and sends exactly one control-request
\* frame with startCommand = 1 and no mode-selection frame, so that called on
\* an idle converter (never started, or stopped) it commands it to start; a
\* set_setpoint whose values cannot be encoded sends no frame at all.
C3_SetSetpointSendsStartCommand ==
    last.op = "set_setpoint" =>
        /\ Len(last.encoded) = 1
        /\ \A i \in 1 .. Len(last.sent) : ~IsModeId(last.sent[i])
        /\ IF Encodable(ControlMessage, last.encoded[1].data)
           THEN /\ last.raised = None
                /\ Len(last.sent) = 1
                /\ IsControlRequest(last.sent[1], 1)
                /\ commanded = <<1>>
           ELSE /\ last.sent = <<>>
                /\ commanded = last.was

\* a set_setpoint on a stopped converter, which starts it
C3_Witness ==
    /\ last.op = "set_setpoint"
    /\ last.was = <<0>>
    /\ last.raised = None
    /\ commanded = <<1>>

\* -------------------------------------------------------------------- C4
\* C4: set_mode returns and sends exactly one frame, the mode selection
\* carrying its two arguments, and no control request: the start command the
\* converter was last given is after set_mode what it was before.
C4_SetModeLeavesStartCommand ==
    last.op = "set_mode" =>
        /\ last.raised = None
        /\ Len(last.sent) = 1
        /\ IsModeSelection(last.sent[1], last.args.converter_mode, last.args.control_type)
        /\ ~IsControlId(last.sent[1])
        /\ commanded = last.was

\* a set_mode on a running converter, which stays commanded to run
C4_Witness ==
    /\ last.op = "set_mode"
    /\ last.was = <<1>>
    /\ commanded = <<1>>
    /\ Len(last.sent) = 1

\* -------------------------------------------------------------------- C5
VoltageTypes == {ControlType.V_BUS1, ControlType.V_BUS2,
                 ControlType.V_BUS1_ILIM, ControlType.V_BUS2_ILIM}
CurrentTypes == {ControlType.I_BUS1, ControlType.I_BUS2}
PowerTypes == {ControlType.P_BUS1, ControlType.P_BUS2}

\* h is the integer that x (both in 1/FP units) truncates to
IsIntegerPartOf(h, x) ==
    /\ h % FP = 0
    /\ x >= 0 => (h <= x /\ x < h + FP)
    /\ x < 0 => (h >= x /\ x > h - FP)

\* C5: the setpointReq value start hands to the control-request encoder is
\* the integer part of setpoint x 10 for a voltage or a current control type
\* and the integer part of setpoint, unscaled, for a power control type.
C5_StartScalesSetpointByType ==
    (last.op = "start_converter" /\ Len(last.encoded) = 2) =>
        LET handed == last.encoded[2].data.setpointReq
        IN  /\ last.encoded[2].message = ControlRequest \o Suffix(dcdc_id)
            /\ last.args.control_type \in VoltageTypes \cup CurrentTypes =>
                  IsIntegerPartOf(handed, 10 * last.args.setpoint)
            /\ last.args.control_type \in PowerTypes =>
                  IsIntegerPartOf(handed, last.args.setpoint)

\* a start of 2.45 A on bus 1, handed to the encoder as 24
C5_Witness ==
    /\ last.op = "start_converter"
    /\ last.args.control_type = ControlType.I_BUS1
    /\ last.args.setpoint = 2 * FP + 45
    /\ Len(last.encoded) = 2
    /\ last.encoded[2].data.setpointReq = 24 * FP

\* ------------------------------------------------------------- C6 to C10
\* the eight cache categories and the substring that selects each
CategorySubstring ==
    [current |-> <<"Current", "Measures">>, voltage |-> <<"Voltage", "Measures">>,
     power |-> <<"Power", "Measures">>, temperature |-> <<"Temperature", "Measures">>,
     errors |-> <<"Errors">>, warnings |-> <<"Warnings">>,
     regulation |-> <<"Regulation", "Information">>,
     control |-> <<"Control", "Information">>]

Categories == DOMAIN CategorySubstring
MeasureCategories == {"current", "voltage", "power", "temperature"}

\* the categories a message name is classified into
ClassesOf(msg_name) == {c \in Categories : Contains(msg_name, CategorySubstring[c])}

\* the poll delivered a frame that is in the catalog and decodes
IsValidPoll(poll) ==
    /\ poll # <<>>
    /\ HasFrameId(db, poll[1].arbitration_id)
    /\ Decodable(get_message_by_frame_id(db, poll[1].arbitration_id), poll[1].data)

NameOfPoll(poll) == get_message_by_frame_id(db, poll[1].arbitration_id).name
DecodedOfPoll(poll) ==
    Decode(get_message_by_frame_id(db, poll[1].arbitration_id), poll[1].data)

\* what receive returns for a valid poll
ReturnedForPoll(poll) == [name |-> NameOfPoll(poll), data |-> DecodedOfPoll(poll)]

\* category c of the cache <<m, e, w, r, k>> holds the decoded values (the
\* warnings category holds the value of the warnings signal)
HoldsIn(m, e, w, r, k, c, decoded) ==
    CASE c \in MeasureCategories -> c \in DOMAIN m /\ m[c] = decoded
      [] c = "errors" -> e = decoded
      [] c = "warnings" -> "warnings" \in DOMAIN decoded /\ w = decoded.warnings
      [] c = "regulation" -> r = decoded
      [] c = "control" -> k = decoded

\* it does so now, it does so after the step
Holds(c, decoded) ==
    HoldsIn(measurements, errors, warnings, regulation_info, control_info, c, decoded)
HoldsAfter(c, decoded) ==
    HoldsIn(measurements', errors', warnings', regulation_info', control_info', c, decoded)

\* category c of the cache is after the step what it was before
Kept(c) ==
    CASE c \in MeasureCategories ->
            /\ (c \in DOMAIN measurements') = (c \in DOMAIN measurements)
            /\ c \in DOMAIN measurements => measurements'[c] = measurements[c]
      [] c = "errors" -> errors' = errors
      [] c = "warnings" -> warnings' = warnings
      [] c = "regulation" -> regulation_info' = regulation_info
      [] c = "control" -> control_info' = control_info

\* the cache of a session that has received nothing
CacheIsDefault ==
    /\ measurements = EmptyDict
    /\ errors = [critical |-> 0, functional |-> 0]
    /\ warnings = 0
    /\ regulation_info = EmptyDict
    /\ control_info = EmptyDict

\* the step is a call of receive
IsReceive == last'.op = "receive_messages"

\* the polls (by index) of the call that were classified into category c
PollsInto(polls, c) ==
    {i \in 1 .. Len(polls) : IsValidPoll(polls[i]) /\ c \in ClassesOf(NameOfPoll(polls[i]))}

Latest(indices) == CHOOSE i \in indices : \A j \in indices : j <= i

\* C6 as stated: the last frame a receive call returned (a frame that is in
\* the catalog and decoded) was classified into exactly one of the eight
\* categories, which holds its decoded values.  (Violated: a frame of a
\* catalog message whose name carries none of the eight substrings decodes
\* and is returned, but is cached nowhere.)
C6_EveryDecodedFrameIsCached ==
    (last.op = "receive_messages" /\ last.raised = None /\ last.ret # <<>>) =>
        LET returned == last.ret[Len(last.ret)]
        IN  /\ Cardinality(ClassesOf(returned.name)) = 1
            /\ \A c \in ClassesOf(returned.name) : Holds(c, returned.data)

\* C6 amended: every inbound frame that is in the catalog and decodes is
\* classified by message-name substring into at most one of the eight cache
\* categories, none when its name carries none of the substrings; a receive
\* call leaves unchanged every category none of its frames was classified
\* into, and every other category holds the decoded values of the most recent
\* frame classified into it.
C6_CategoryHoldsMostRecentFrame ==
    [][IsReceive =>
          \E polls \in {last'.args.polls} :
              /\ \A i \in 1 .. Len(polls) :
                    IsValidPoll(polls[i]) =>
                        Cardinality(ClassesOf(NameOfPoll(polls[i]))) <= 1
              /\ \A c \in Categories :
                    \E into \in {PollsInto(polls, c)} :
                        IF into = {}
                        THEN Kept(c)
                        ELSE HoldsAfter(c, DecodedOfPoll(polls[Latest(into)]))]_vars

\* one receive call that was given two voltage reports with different
\* values; the voltage category holds the second
C6_Witness ==
    /\ last.op = "receive_messages"
    /\ Len(last.ret) = 2
    /\ ClassesOf(last.ret[1].name) = {"voltage"}
    /\ ClassesOf(last.ret[2].name) = {"voltage"}
    /\ last.ret[1].data # last.ret[2].data
    /\ Holds("voltage", last.ret[2].data)

\* C7: receive never raises on a frame that is not in the catalog or does not
\* decode; the call returns exactly the frames that are in the catalog and
\* decode, in arrival order, polls the bus once per poll it was given, and
\* leaves the cache as the same call without the skipped frames leaves it
\* (unchanged when no frame of the call is valid).
C7_InvalidFramesAreSkipped ==
    [][IsReceive =>
          \E valid \in {SelectSeq(last'.args.polls, IsValidPoll)} :
              /\ last'.raised = None
              /\ last'.polls = Len(last'.args.polls)
              /\ last'.ret = [i \in 1 .. Len(valid) |-> ReturnedForPoll(valid[i])]
              /\ \E st \in {receive_messages(valid)} :
                    cache' = <<st.measurements, st.errors, st.warnings,
                               st.regulation_info, st.control_info>>
              /\ valid = <<>> => cache' = cache]_vars

\* a receive call given an error report cut short and then a whole one: the
\* first is skipped, the second is returned and cached
C7_Witness ==
    /\ last.op = "receive_messages"
    /\ Len(last.args.polls) = 2
    /\ last.args.polls[1] = <<ShortFrame>>
    /\ IsValidPoll(last.args.polls[2])
    /\ last.raised = None
    /\ Len(last.ret) = 1
    /\ Holds("errors", last.ret[1].data)

\* every poll of the call timed out
NoTraffic(polls) == \A i \in 1 .. Len(polls) : polls[i] = <<>>

\* C8: a receive call all of whose polls time out returns the empty list,
\* raises nothing and changes no cache category; called right after start on
\* a session that has received nothing, every category is still at its default.
C8_ReceiveWithoutTrafficIsQuiet ==
    [][(IsReceive /\ NoTraffic(last'.args.polls)) =>
          /\ last'.raised = None
          /\ last'.ret = <<>>
          /\ last'.polls = Len(last'.args.polls)
          /\ cache' = cache
          /\ (last.op = "start_converter" /\ nrx = 0) => CacheIsDefault']_vars

\* start, then at once a receive whose two polls both timed out
C8_Witness ==
    /\ last.op = "receive_messages"
    /\ last.after_start
    /\ last.was = <<1>>
    /\ last.args.polls = << <<>>, <<>> >>
    /\ last.ret = <<>>
    /\ nrx = 0
    /\ CacheIsDefault

OutboundOperations ==
    {"start_converter", "stop_converter", "set_mode", "set_setpoint", "reset_errors",
     "request_information"}

\* C9: an outbound operation (start, stop, set_mode, set_setpoint,
\* reset_errors, request_information) changes no cache category and polls the
\* bus for no frame; a step that changes the cache is a receive call that
\* returned at least one decoded frame.
C9_OnlyReceiveChangesCache ==
    [][/\ last'.op \in OutboundOperations => (cache' = cache /\ last'.polls = 0 /\ npolls' = npolls)
       /\ cache' # cache =>
             (IsReceive /\ last'.raised = None /\ Len(last'.ret) > 0)]_vars

\* reset_errors called while an error report is cached: the report stays
C9_Witness ==
    /\ last.op = "reset_errors"
    /\ last.raised = None
    /\ Len(last.sent) = 1
    /\ errors # [critical |-> 0, functional |-> 0]

ReadAccessors == {"get_measurements", "get_status"}

\* C10: get_measurements and get_status send no frame, poll the bus for no
\* frame and change no cache category; they return the cached value of each
\* category, which on a session that has received nothing is the empty map for
\* voltage, current, power, temperature, regulation and control information,
\* zeroed errors and warnings = 0.
C10_AccessorsOnlyRead ==
    [][last'.op \in ReadAccessors =>
          /\ cache' = cache
          /\ commanded' = commanded
          /\ nrx' = nrx
          /\ npolls' = npolls
          /\ last'.sent = <<>>
          /\ last'.polls = 0
          /\ last'.raised = None
          /\ last'.op = "get_measurements" =>
                /\ \A c \in MeasureCategories :
                      IF c \in DOMAIN measurements
                      THEN last'.ret[c] = measurements[c]
                      ELSE last'.ret[c] = EmptyDict
                /\ nrx = 0 => \A c \in MeasureCategories : last'.ret[c] = EmptyDict
          /\ last'.op = "get_status" =>
                /\ last'.ret = [control_info |-> control_info,
                                regulation_info |-> regulation_info,
                                errors |-> errors, warnings |-> warnings]
                /\ nrx = 0 =>
                      last'.ret = [control_info |-> EmptyDict, regulation_info |-> EmptyDict,
                                   errors |-> [critical |-> 0, functional |-> 0],
                                   warnings |-> 0]]_vars

\* get_status on a session that was started and has received nothing
C10_Witness ==
    /\ last.op = "get_status"
    /\ last.was = <<1>>
    /\ nrx = 0
    /\ last.ret.warnings = 0
    /\ last.ret.errors = [critical |-> 0, functional |-> 0]

\* ------------------------------------------------------------------- C11
\* C11 as stated: an outbound operation that fails because its target
\* message is absent from the catalog or a value cannot be encoded has put no
\* frame on the bus.  (Violated: start sends the mode selection before it
\* looks up and encodes the control request.)
C11_FailedOperationSendsNothing ==
    (last.op \in OutboundOperations /\ last.raised \in {"KeyError", "EncodeError"}) =>
        last.sent = <<>>

\* ------------------------------------------------------------------- C12
\* the step is a call of one of the operations `ops`
IsCallOf(ops) == bus_up' = bus_up /\ last'.op \in ops

C13_LoopStopsOnReceiveFailure ==
    \A t \in DOMAIN threads : threads[t].failed => threads[t].pc \in {"while", "done"}

\* C14 as stated: a receive loop that was running when stop_monitoring
\* cleared the flag starts no poll iteration after the one in progress: the
\* next time it evaluates its loop condition it exits.  (Violated: monitoring
\* started again before that sets the flag the old loop reads.)
C14_StoppedLoopExits ==
    [][\A t \in DOMAIN threads :
          (threads[t].stopped /\ threads[t].pc = "while") =>
              threads'[t].pc \in {"while", "done"}]_vars

\* the category an entry of a returned dict shows
CategoryOfKey(k) ==
    IF k = "control_info" THEN "control"
    ELSE IF k = "regulation_info" THEN "regulation" ELSE k

\* the value entry k shows is the complete decoded record of frame f (for the
\* warnings entry: the warnings signal of f)
IsRecordOfFrame(k, v, f) ==
    /\ IsValidPoll(<<f>>)
    /\ CategoryOfKey(k) \in ClassesOf(NameOfPoll(<<f>>))
    /\ IF k = "warnings" THEN v = DecodedOfPoll(<<f>>).warnings
                         ELSE v = DecodedOfPoll(<<f>>)

\* the value entry k shows before any frame of its category was received
IsDefaultOfKey(k, v) ==
    IF k = "warnings" THEN v = 0
    ELSE IF k = "errors" THEN v = DefaultErrors ELSE v = EmptyDict

\* C15: with one thread in the receive loop and reader threads inside
\* get_measurements / get_status, every entry a reader has obtained is the
\* default or the complete decoded record of one received frame, never fields
\* of two frames.
C15_ReadersSeeWholeRecords ==
    \A r \in DOMAIN readers : \A k \in DOMAIN readers[r].got :
        \/ IsDefaultOfKey(k, readers[r].got[k])
        \/ \E f \in ReaderFrames : IsRecordOfFrame(k, readers[r].got[k], f)

\* a reader returns from get_measurements with the voltage record of one frame
\* after a second voltage report has replaced it in the cache, and another
\* reader, still inside get_measurements, has obtained the second frame's record
C15_Witness ==
    \E r, q \in DOMAIN readers :
        /\ readers[r].op = "idle"
        /\ DOMAIN readers[r].got = Range(AccessorKeys.get_measurements)
        /\ readers[r].got.voltage # EmptyDict
        /\ readers[q].op = "get_measurements"
        /\ "voltage" \in DOMAIN readers[q].got
        /\ readers[q].got.voltage \notin {EmptyDict, readers[r].got.voltage}
        /\ measurements.voltage = readers[q].got.voltage

\* C16: a caller that modifies a record an accessor returned changes neither
\* the cache nor what a later accessor call returns.
C16_ReturnedRecordsAreValues ==
    [][last'.op = "modify_returned" =>
          /\ cache' = cache
          /\ get_measurements' = get_measurements
          /\ get_status' = get_status]_vars

\* the message definitions of a file, and the places of the definitions with
\* a given identifier in the expanded file
MessagesIn(lines) == {lines[i] : i \in {x \in 1 .. Len(lines) : lines[x].kind = "BO_"}}
DefinitionsOf(can_id) ==
    {i \in 1 .. Len(expansion.new_lines) :
        expansion.new_lines[i].kind = "BO_" /\ expansion.new_lines[i].can_id = can_id}

\* the input's message identifiers are unique and at least num_units apart
WellSpaced ==
    \A p, q \in 1 .. Len(expansion.lines) :
        (p # q /\ expansion.lines[p].kind = "BO_" /\ expansion.lines[q].kind = "BO_") =>
            \/ expansion.lines[p].can_id - expansion.lines[q].can_id >= expansion.num_units
            \/ expansion.lines[q].can_id - expansion.lines[p].can_id >= expansion.num_units
            \/ (expansion.num_units = 0
                /\ expansion.lines[p].can_id # expansion.lines[q].can_id)

RenamedReceivers(sig_line, k) ==
    [sig_line EXCEPT !.text =
        [w \in DOMAIN @ |-> IF w > 2 /\ @[w] = SubjectNode
                            THEN SubjectNode \o Suffix(k) ELSE @[w]]]

\* C18: in copy k of a message that involves the converter the signal lines
\* are the base message's, in the same order, and differ from them only in
\* the receivers equal to the converter node, renamed to the node of unit k;
\* signal names, layout and other receivers are unchanged.
C18_SignalLinesOfCopies ==
    \A p \in 1 .. Len(expansion.lines) :
        (expansion.lines[p].kind = "BO_" /\ InvolvesDcdc(expansion.lines[p])) =>
            \A k \in 0 .. expansion.num_units - 1 :
                \A i \in DefinitionsOf(expansion.lines[p].can_id + k) :
                    \E signals \in {SubSeq(expansion.lines, p + 1,
                                           LastSignal(expansion.lines, p))} :
                        /\ SubSeq(expansion.new_lines, i + 1, i + Len(signals)) =
                               [y \in 1 .. Len(signals) |-> RenamedReceivers(signals[y], k)]
                        /\ expansion.new_lines[i + Len(signals) + 1].kind # "SG_"

\* the message defined at line p of the input is in the expanded file once:
\* one definition has one of the identifiers can_id .. can_id + MaxUnits, it is
\* the input's line, and the input's signal lines follow it as they were
CopiedOnce(p) ==
    \E i \in 1 .. Len(expansion.new_lines) :
        /\ UNION {DefinitionsOf(expansion.lines[p].can_id + k) : k \in 0 .. MaxUnits} = {i}
        /\ expansion.new_lines[i] = expansion.lines[p]
        /\ \E signals \in {SubSeq(expansion.lines, p + 1, LastSignal(expansion.lines, p))} :
              /\ SubSeq(expansion.new_lines, i + 1, i + Len(signals)) = signals
              /\ expansion.new_lines[i + Len(signals) + 1].kind # "SG_"

\* C19 as stated: a message whose sender is not the converter node is in the
\* expanded file exactly once, with its identifier, name and signal lines
\* unchanged, whatever num_units is.
C19_OtherSendersCopiedOnce ==
    \A p \in 1 .. Len(expansion.lines) :
        (expansion.lines[p].kind = "BO_" /\ expansion.lines[p].sender # SubjectNode) =>
            CopiedOnce(p)

\* C19: a message whose sender is not the converter node and whose name does
\* not contain DCDC is in the expanded file exactly once, with its identifier,
\* name and signal lines unchanged, whatever num_units is.
C19_OtherMessagesCopiedOnce ==
    \A p \in 1 .. Len(expansion.lines) :
        (/\ expansion.lines[p].kind = "BO_"
         /\ ~Contains(expansion.lines[p].sender, SubjectNode)
         /\ ~Contains(expansion.lines[p].name, <<"DCDC_">>)) =>
            CopiedOnce(p)

\* expanded for three units, the supervisor's heartbeat is there once while
\* a converter message has its three copies
C19_Witness ==
    /\ expansion.num_units = 3
    /\ \E p \in 1 .. Len(expansion.lines) :
          /\ expansion.lines[p].kind = "BO_"
          /\ expansion.lines[p].name = <<"SUP_", "Heartbeat">>
          /\ CopiedOnce(p)
    /\ \E i \in 1 .. Len(expansion.new_lines) :
          /\ expansion.new_lines[i].kind = "BO_"
          /\ expansion.new_lines[i].name = <<"DCDC_", "Status", "_", "2">>

\* the places of a line in the expanded file
PlacesOf(line) == {i \in 1 .. Len(expansion.new_lines) : expansion.new_lines[i] = line}

\* C20: for every message comment, signal comment, attribute and value table
\* keyed by the identifier of a message that is multiplied, the expanded file
\* has exactly num_units records, one for each k below num_units, with
\* identifier original + k and the original's text.
C20_RecordsFollowTheirMessage ==
    \A p \in 1 .. Len(expansion.lines) :
        (/\ expansion.lines[p].kind \in Range(RecordKinds)
         /\ \E bo \in MessagesIn(expansion.lines) :
               bo.can_id = expansion.lines[p].can_id /\ InvolvesDcdc(bo)) =>
            \A k \in 0 .. expansion.num_units + MaxUnits :
                Cardinality(PlacesOf([expansion.lines[p] EXCEPT !.can_id = @ + k])) =
                    IF k < expansion.num_units THEN 1 ELSE 0

\* the node list (the BU_ line) of a file
NodeListOf(lines) == lines[CHOOSE i \in 1 .. Len(lines) : lines[i].kind = "BU_"].text

\* C21: the node list of the expanded file is the input's node list followed
\* by one node name for each unit k = 1 .. num_units - 1, and by none for
\* k >= num_units.
C21_NodeListFollowsUnitCount ==
    expansion.lines # <<>> =>
        NodeListOf(expansion.new_lines) =
            NodeListOf(expansion.lines)
            \o Flatten([k \in 1 .. expansion.num_units - 1 |-> SubjectNode \o Suffix(k)])

\* no two message definitions of the expanded file share an identifier
UniqueIdentifiers ==
    \A i, j \in 1 .. Len(expansion.new_lines) :
        (/\ i # j
         /\ expansion.new_lines[i].kind = "BO_"
         /\ expansion.new_lines[j].kind = "BO_") =>
            expansion.new_lines[i].can_id # expansion.new_lines[j].can_id

\* C22: if the input's message identifiers are unique and at least num_units
\* apart, no two message definitions of the expanded file share an identifier.
C22_SpacedInputExpandsUniquely == WellSpaced => UniqueIdentifiers

\* two converter messages two identifiers apart, expanded for two units: four
\* definitions, no identifier twice
C22_Witness ==
    /\ expansion.num_units = 2
    /\ WellSpaced
    /\ \E i, j \in 1 .. Len(expansion.new_lines) :
          /\ expansion.new_lines[i].kind = "BO_"
          /\ expansion.new_lines[i].name = <<"DCDC_", "Status", "_", "1">>
          /\ expansion.new_lines[j].kind = "BO_"
          /\ expansion.new_lines[j].name = <<"DCDC_", "Limits">>
          /\ expansion.new_lines[j].can_id = expansion.new_lines[i].can_id + 1

\* C23: the script writes no expanded file in which two message definitions
\* have the same identifier (it fails instead).
C23_NoOutputWithDuplicateIdentifier == UniqueIdentifiers

\* the lines the script has no rule for, or whose rule does not apply: the
\* preamble, record types it does not know, the converter node's own comment
\* and address, and the records whose identifier is outside the range
PassedThrough(line) ==
    \/ line.kind \in {"VERSION", "BA_DEF_", "CM_BU", "BA_BU"}
    \/ line.kind \in Range(RecordKinds) /\ ~(DcdcIdMin <= line.can_id /\ line.can_id <= DcdcIdMax)

\* the lines of a file that are such lines of the input, in the file's order
InputLinesPassedThrough(lines) ==
    LET IsOne(line) == \E i \in 1 .. Len(expansion.lines) :
                           expansion.lines[i] = line /\ PassedThrough(line)
    IN  SelectSeq(lines, IsOne)

\* C24: every input line that is not a record the script multiplies (preamble,
\* unknown record types, comments, attributes and value tables whose
\* identifier is outside the range) is in the expanded file exactly once,
\* unchanged, and these lines are in the order they had in the input.
C24_OtherLinesPassThrough ==
    InputLinesPassedThrough(expansion.new_lines) = InputLinesPassedThrough(expansion.lines)

\* expanded for three units: the out-of-range message's four records are there
\* as they were, after the attribute definition, and an in-range record has
\* its copy for unit 2
C24_Witness ==
    /\ expansion.num_units = 3
    /\ Len(InputLinesPassedThrough(expansion.new_lines)) >= 8
    /\ \E i \in 1 .. Len(expansion.new_lines) :
          /\ expansion.new_lines[i].kind = "VAL_"
          /\ expansion.new_lines[i].can_id = DcdcIdMin + 9 * IdStep + 2
    /\ \E i \in 1 .. Len(expansion.new_lines) :
          /\ expansion.new_lines[i].kind = "VAL_"
          /\ expansion.new_lines[i].can_id = IdStep

\* the message the last encode_message call named
EncodedMessage == get_message_by_name(db, last.args.message_name)

C26_ValueAboveMaximumIsClamped ==
    (/\ last.op = "encode_message"
     /\ \A i \in DOMAIN EncodedMessage.signals :
           \E sig \in {EncodedMessage.signals[i]} :
               \/ sig.name = "currentLimitReq"
               \/ /\ InDeclaredRange(sig, last.args.data[sig.name])
                  /\ RawFits(sig, ScaledToRaw(sig, last.args.data[sig.name]))
     /\ "currentLimitReq" \in DOMAIN last.args.data
     /\ last.args.data.currentLimitReq > SignalOf(EncodedMessage, "currentLimitReq").range[2]) =>
        /\ last.raised = None
        /\ last.ret.decoded.currentLimitReq = SignalOf(EncodedMessage, "currentLimitReq").range[2]

\* C27: after set(key, value) a get(key) returns value, for plain and nested
\* keys whatever was stored under a prefix of the key; a get of a key that is
\* absent at some level returns the default.
C27_SetThenGet ==
    /\ last.op = "set" =>
          /\ last.raised = None
          /\ config_get(config, last.args.key, [val |-> "absent"]) = last.args.value
    /\ (last.op = "get" /\ \E n \in 1 .. Len(last.args.key) :
            config_get(config, SubSeq(last.args.key, 1, n), [val |-> "absent"])
                = [val |-> "absent"]) =>
          last.ret = last.args.value

\* ------------------------------------------------------------------- C28
\* the points of the buffer that get_buffer_data(converter, ...) may return
\* when it is called in this state: all, or those of the converter named
PointsOf(converter) ==
    SelectSeq(logger.data_buffer, LAMBDA d : converter = None \/ d.converter = converter)

\* C28: log_data appends exactly one data point, the one made of its
\* arguments, to the buffer (a full buffer of max_buffer_size points gives up
\* its oldest point), whether or not file logging is active; and
\* get_buffer_data(converter, limit), for a limit of zero or more, returns at
\* most `limit` points, namely the most recent ones of the buffer, or of the
\* converter if one is named, in arrival order.
C28_BufferKeepsEveryPoint ==
    /\ last.op = "log_data" =>
          logger.data_buffer =
              Append(IF Len(last.was.data_buffer) >= MaxBuffer
                     THEN Tail(last.was.data_buffer) ELSE last.was.data_buffer,
                     last.args)
    /\ (last.op = "get_buffer_data" /\ last.args.limit >= 0) =>
          /\ Len(last.ret) <= last.args.limit
          /\ Len(last.ret) <= Len(PointsOf(last.args.converter))
          /\ last.ret = SubSeq(PointsOf(last.args.converter),
                               Len(PointsOf(last.args.converter)) - Len(last.ret) + 1,
                               Len(PointsOf(last.args.converter)))
          /\ \/ Len(last.ret) = last.args.limit
             \/ Len(last.ret) = Len(PointsOf(last.args.converter))

\* ------------------------------------------------------------------- C29
\* C29: is_logging is true exactly when a log file is open; start_logging
\* leaves it true and stop_logging leaves it false; start_logging while
\* logging and stop_logging while not logging change no field of the logger,
\* the open file included.
C29_LoggingExactlyWhileFileOpen ==
    /\ logger.is_logging <=> logger.log_file # 0
    /\ last.op = "start_logging" =>
          /\ logger.is_logging
          /\ last.was.is_logging => logger = last.was
    /\ last.op = "stop_logging" =>
          /\ ~logger.is_logging
          /\ ~last.was.is_logging => logger = last.was

\* start_logging was called while the second log file of the run was open
C29_Witness ==
    /\ last.op = "start_logging"
    /\ last.was.is_logging
    /\ last.was.log_file = 2
    /\ logger.data_buffer # <<>>

\* ------------------------------------------------------------------- C30
\* C30: identify_converter(id) returns DCDC_Primary, DCDC_Primary_1 and
\* DCDC_Primary_2 for id = base, base + 1 and base + 2, for each base of the
\* table {2148532224, 2148532480, 2148532736} (here less 2^31), and None for
\* every other id.
C30_ConverterOfIdentifier ==
    last.op = "identify_converter" =>
        \A base \in {1048576, 1048832, 1049088} :
            /\ last.args.can_id = base => last.ret = "DCDC_Primary"
            /\ last.args.can_id = base + 1 => last.ret = "DCDC_Primary_1"
            /\ last.args.can_id = base + 2 => last.ret = "DCDC_Primary_2"
            /\ (\A b \in {1048576, 1048832, 1049088} : last.args.can_id \notin b .. b + 2) =>
                  last.ret = None

\* the third unit's identifier over the second base was identified
C30_Witness ==
    /\ last.op = "identify_converter"
    /\ last.args.can_id = 1048832 + 2
    /\ last.ret = "DCDC_Primary_2"

\* ------------------------------------------------------------------- C31
\* the frame is one of a message of the given unit: the catalog holds its
\* identifier, under a name that carries the unit's suffix
BelongsToUnit(frame, unit) ==
    /\ HasFrameId(db, frame.arbitration_id)
    /\ \E m \in BaseMessages :
          get_message_by_frame_id(db, frame.arbitration_id) = UnitCopy(m, unit)

\* C31: a receive_messages call of the session for unit k during which no
\* frame of unit k arrived leaves the session's cache as it was, whatever
\* frames of other units arrived.
C31_OtherUnitsLeaveCacheUnchanged ==
    [][(/\ last'.op = "receive_messages"
        /\ \A i \in 1 .. Len(last'.args.polls) :
              \A frame \in Range(last'.args.polls[i]) : ~BelongsToUnit(frame, dcdc_id))
       => UNCHANGED cache]_vars

\* ------------------------------------------------------------------- C32
\* C32: for a voltage or current control type, a set_setpoint that follows a
\* start_converter with the same setpoint sends a control request whose
\* setpointReq field equals the one the start sent.
C32_SameSetpointSameField ==
    [][(/\ last.op = "start_converter"
        /\ last.raised = None
        /\ last.args.control_type \in
              {ControlType.V_BUS1, ControlType.V_BUS2, ControlType.V_BUS1_ILIM,
               ControlType.V_BUS2_ILIM, ControlType.I_BUS1, ControlType.I_BUS2}
        /\ last'.op = "set_setpoint"
        /\ last'.raised = None
        /\ last'.args.setpoint = last.args.setpoint)
       => Decode(ControlMessage, last'.sent[1].data).setpointReq
              = Decode(ControlMessage, last.sent[2].data).setpointReq]_vars

\* ------------------------------------------------------------------- C33
\* the names the controller's operations look up, before the unit's suffix
RequestNames ==
    {ModeRequest, ControlRequest, ErrorResetRequest, InformationRequest, SettingsModeRequest}

RecordsNaming(can_id) ==
    {[kind |-> expansion.new_lines[i].kind, text |-> expansion.new_lines[i].text] :
        i \in {x \in 1 .. Len(expansion.new_lines) :
                  /\ expansion.new_lines[x].kind \in Range(RecordKinds)
                  /\ expansion.new_lines[x].can_id = can_id}}

\* C34: in the expanded catalog every comment, attribute and value-table
\* record that names an identifier names a message the expanded catalog
\* defines, and every unit copy of a multiplied message has the records of
\* the base message (the input's identifiers being at least num_units apart).
C34_RecordsAgreeWithMessages ==
    /\ \A i \in 1 .. Len(expansion.new_lines) :
          expansion.new_lines[i].kind \in Range(RecordKinds) =>
              DefinitionsOf(expansion.new_lines[i].can_id) # {}
    /\ \A bo \in MessagesIn(expansion.lines) : (WellSpaced /\ InvolvesDcdc(bo)) =>
          \A k \in 0 .. expansion.num_units - 1 :
              RecordsNaming(bo.can_id + k) = RecordsNaming(bo.can_id)

\* ------------------------------------------------------------------- C35
\* C35: no receiver thread calls bus.recv on a bus that stop_monitoring has
\* shut down, and none is inside a bus.recv call on such a bus.
C35_NoReceiveOnReleasedBus ==
    \A t \in DOMAIN threads :
        /\ ~threads[t].used_shut
        /\ threads[t].pc = "recv" => threads[t].handle \notin bus_shut

\* ------------------------------------------------------------------- C36
\* C36: a log_data call made while logging is active returns after writing
\* one record to the open file, a CSV row if the start_logging call that
\* opened the file selected 'csv' and a JSON line if it selected 'json'.
C36_RecordInSelectedFormat ==
    [][(last'.op = "log_data" /\ logger.is_logging) =>
          /\ last'.raised = None
          /\ logger'.rows = Append(logger.rows, logger.format)]_vars

\* ------------------------------------------------------------------- C37
\* C37: whatever set calls were made, the class-level defaults are the
\* original ones, and right after reset_to_defaults(), or the creation of a
\* ConfigManager without a config file, every key of the configuration,
\* nested ones included, has its original default value.
C37_DefaultsAreNeverChanged ==
    /\ defaults.config = DEFAULT_CONFIG
    /\ last.op \in {"reset_to_defaults", "ConfigManager"} => config = DEFAULT_CONFIG

\* ------------------------------------------------------------------- C38
\* C38: a receive_messages call always ends; it starts no bus.recv call once
\* the elapsed time has reached its timeout, whether or not frames keep
\* arriving; and with a timeout of zero or less it makes no bus.recv call,
\* leaves the cache as it was and returns an empty list.
C38_ReceiveReturnsWithinBudget ==
    /\ (rx.pc # "idle") ~> (rx.pc = "idle")
    /\ [][(rx.pc = "while" /\ rx'.pc = "recv") => rx.elapsed < rx.timeout]_vars
    /\ []((rx.pc = "idle" /\ last.op = "receive_messages" /\ last.args.timeout <= 0) =>
             /\ last.raised = None
             /\ last.polls = 0
             /\ last.ret = <<>>
             /\ last.was = cache)

\* a call with a timeout of 0.1 s returned after more bus.recv calls than
\* 0.1 s of waiting allow: frames kept arriving
C38_Witness ==
    /\ rx.pc = "idle"
    /\ last.op = "receive_messages"
    /\ last.raised = None
    /\ last.args.timeout = 1
    /\ last.polls > MaxPolls
    /\ Len(last.ret) > MaxPolls

\* ------------------------------------------------------------------- C39
\* C39: expanded for one unit, the output has the lines of the input, in the
\* same order.
C39_OneUnitReproducesInput ==
    (expansion.lines # <<>> /\ expansion.num_units = 1) =>
        expansion.new_lines = expansion.lines


\* ------------------------------------------------------------------- C40
\* C40: send_message and receive_message on a handler without a bus handle,
\* never connected or disconnected since, raise ConnectionError, build no
\* message, make no bus.send and no bus.recv call and leave the handle and
\* the shut-down objects as they were; disconnect on such a handler changes
\* nothing and raises nothing.  The handler holds a handle exactly when the
\* last successful connect or disconnect was a connect: it starts without
\* one, a successful connect leaves it with a handle that was not shut down,
\* a disconnect leaves it without one, and a failed connect, a send and a
\* receive leave the handle as they found it.
C40_UnconnectedHandlerRaises ==
    /\ last.op = "__init__" => can_bus = 0
    /\ (last.op \in {"send_message", "receive_message"} /\ last.was.bus = 0) =>
           /\ last.raised = "ConnectionError"
           /\ last.encoded = <<>> /\ last.sent = <<>> /\ last.polls = 0
           /\ can_bus = 0 /\ bus_shut = last.was.shut
    /\ (last.op = "disconnect" /\ last.was.bus = 0) =>
           /\ last.raised = None
           /\ can_bus = 0 /\ bus_shut = last.was.shut
    /\ (last.op = "connect" /\ last.raised = None) => (can_bus # 0 /\ can_bus \notin bus_shut)
    /\ last.op = "disconnect" => can_bus = 0
    /\ (\/ last.op \in {"send_message", "receive_message"}
        \/ last.op = "connect" /\ last.raised # None) => can_bus = last.was.bus

\* the send that finds no handle on a handler that was connected and
\* disconnected, its bus shut down
C40_Witness ==
    /\ last.op = "send_message"
    /\ last.was.bus = 0
    /\ last.was.shut # {}
    /\ last.raised = "ConnectionError"
====
